---- MODULE Spec2Model ----
(***************************************************************************)
(* Tile selection and load management of Cesium3DTilesSelection::Tileset   *)
(* (src/Cesium3DTilesSelection/src/Tileset.cpp): the per-frame traversal   *)
(* of updateView, the three load queues and their dispatch, the LRU list   *)
(* and its eviction, and the Cesium ion token refresh.                     *)
(***************************************************************************)
EXTENDS Integers, Sequences, FiniteSets, TLC

\* ------------------------------------------------------------------ bounds

\* Number of tiles of the tileset; tile 1 is the root.
NumTiles == 5
\* Number of updateView frames that are explored.
MaxFrames == 3

\* ------------------------------------------------------------- tile tree

Tiles == 1..NumTiles

\* The tile tree: the children of tile t are 2t and 2t+1 (when they exist).
getParent(t) == t \div 2

getChildren(t) ==
    SelectSeq(<<2 * t, 2 * t + 1>>, LAMBDA k : k \in Tiles)

isLeaf(t) == getChildren(t) = <<>>

RECURSIVE isAncestor(_, _)
\* a is a proper ancestor of t
isAncestor(a, t) ==
    IF t <= 1 THEN FALSE
    ELSE getParent(t) = a \/ isAncestor(a, getParent(t))

\* The context (tileset.json or external tileset) that owns a tile: the
\* subtree below tile 2 belongs to a second context.
getContext(t) == IF isAncestor(2, t) THEN 2 ELSE 1

\* Decoded size of the content of tile t, in units of the cache budget.
computeContentSize(t) == 1 + (t % 2)

\* ------------------------------------------------------------------ state

VARIABLES
    options,               \* TilesetOptions and per-tileset configuration
    refine,                \* tile -> "Replace" | "Add"
    rootLoad,              \* startup load: "endpoint" | "json" | "ready" | "failed"
    state,                 \* tile -> Tile::LoadState
    content,               \* tile -> what _pContent holds
    sel,                   \* tile -> last TileSelectionState
    _previousFrameNumber,
    _loadsInProgress,
    _isRefreshingIonToken,
    ionRequests,           \* contexts of the outstanding endpoint refresh requests
    _loadedTiles,          \* the LRU list, head first
    _tileDataBytes,
    _updateResult,         \* ViewUpdateResult
    _loadQueueHigh,
    _loadQueueMedium,
    _loadQueueLow,
    frame,                 \* history: what the last updateView did
    provider,              \* a RasterOverlayTileProvider and its tiles
    loaders,               \* the maps of TileContentFactory
    octree,                \* an ImplicitOctreeLoader and its loads in flight
    subtrees,              \* the availability subtree loads of the tileset
    lastOp                 \* history: the last operation

vars == <<options, refine, rootLoad, state, content, sel, _previousFrameNumber,
          _loadsInProgress, _isRefreshingIonToken, ionRequests, _loadedTiles,
          _tileDataBytes, _updateResult, _loadQueueHigh, _loadQueueMedium,
          _loadQueueLow, frame, provider, loaders, octree, subtrees, lastOp>>

config == <<options, refine, loaders, octree, subtrees>>

\* the state of the tileset, which the raster overlay provider and the
\* content loaders leave alone
tileset == <<rootLoad, state, content, sel, _previousFrameNumber,
             _loadsInProgress, _isRefreshingIonToken, ionRequests,
             _loadedTiles, _tileDataBytes, _updateResult, _loadQueueHigh,
             _loadQueueMedium, _loadQueueLow, frame>>

\* ------------------------------------------------- sequences, generic help

Range(s) == {s[i] : i \in 1..Len(s)}

Prefix(s, n) == SubSeq(s, 1, n)

Without(s, x) == SelectSeq(s, LAMBDA y : y # x)

Min(a, b) == IF a < b THEN a ELSE b

Max(a, b) == IF a > b THEN a ELSE b

\* ------------------------------------------------------ TileSelectionState

NeverSelected == [frameNumber |-> 0, result |-> "None"]

TileSelectionState(frameNumber, result) ==
    [frameNumber |-> frameNumber, result |-> result]

getResult(s, frameNumber) ==
    IF s.frameNumber # frameNumber THEN "None" ELSE s.result

wasKicked(s, frameNumber) ==
    getResult(s, frameNumber) \in {"RenderedAndKicked", "RefinedAndKicked"}

getOriginalResult(s, frameNumber) ==
    LET r == getResult(s, frameNumber)
    IN  CASE r = "RenderedAndKicked" -> "Rendered"
          [] r = "RefinedAndKicked" -> "Refined"
          [] OTHER -> r

kick(s) ==
    CASE s.result = "Rendered" -> [s EXCEPT !.result = "RenderedAndKicked"]
      [] s.result = "Refined" -> [s EXCEPT !.result = "RefinedAndKicked"]
      [] OTHER -> s

\* ------------------------------------------------- Tile (content lifecycle)

\* Whether the content URI of the tile is empty (the tile has no content).
emptyContentUri(t) == t \in options.emptyTiles

getUnconditionallyRefine(t) == t \in options.unconditionallyRefine

\* Tile::isRenderable: the content of the tile has been loaded (the forbid
\* holes mode waits for the children to become renderable without visiting
\* them, so a loaded child is renderable before the traversal promotes it to
\* Done), or the tile has failed for good.
isRenderable(c, t) == c.state[t] \in {"ContentLoaded", "Done", "Failed"}

\* Tile::computeByteSize: the size of the model the content holds.
computeByteSize(cont, t) ==
    IF cont[t] = "model" THEN computeContentSize(t) ELSE 0

\* Tile::setState on the state of the traversal; moves is the history of
\* the changes of load state the traversal made.
setState(c, t, s) ==
    [c EXCEPT !.state[t] = s,
              !.moves = Append(@, [tile |-> t, from |-> c.state[t], to |-> s])]

\* Tile::processLoadedContent: the main-thread step ContentLoaded -> Done.
processLoadedContent(c, t) ==
    IF c.state[t] = "ContentLoaded"
    THEN setState(c, t, "Done")
    ELSE c

\* _onIonTileFailed without the test of _isRefreshingIonToken
onIonTileFailedUnguarded(c, t) ==
    IF c.content[t] # "http401" \/ ~options.ionAssetID
    THEN [c |-> c, action |-> "GiveUp"]
    ELSE [c |-> [c EXCEPT !.refreshing = TRUE,
                          !.loads = @ + 1,
                          !.ionRequests = Append(@, getContext(t)),
                          !.reports = @ + 1],
          action |-> "Wait"]

\* _onIonTileFailed that waits without ever issuing the endpoint request
onIonTileFailedWithoutRequest(c, t) ==
    IF c.content[t] # "http401" \/ ~options.ionAssetID
    THEN [c |-> c, action |-> "GiveUp"]
    ELSE [c |-> [c EXCEPT !.reports = @ + 1], action |-> "Wait"]

\* Tileset::_onIonTileFailed; the result is the context after the call and
\* the FailedTileAction.  reports counts the calls of the frame that ended
\* with Wait.
onIonTileFailed(c, t) ==
    IF c.content[t] = "null" THEN [c |-> c, action |-> "GiveUp"]
    ELSE IF c.content[t] # "http401" THEN [c |-> c, action |-> "GiveUp"]
    ELSE IF ~options.ionAssetID THEN [c |-> c, action |-> "GiveUp"]
    ELSE IF ~c.refreshing
         THEN [c |-> [c EXCEPT !.refreshing = TRUE,
                               !.loads = @ + 1,
                               !.ionRequests = Append(@, getContext(t)),
                               !.reports = @ + 1],
               action |-> "Wait"]
         ELSE [c |-> [c EXCEPT !.reports = @ + 1], action |-> "Wait"]

\* Tile::update: a tile that failed temporarily asks the failedTileCallback
\* of its context what to do; without a callback it fails for good.
update(c, t) ==
    IF c.state[t] # "FailedTemporarily" THEN c
    ELSE IF ~options.ionAssetID THEN setState(c, t, "Failed")
    ELSE LET r == onIonTileFailed(c, t)
         IN  IF r.action = "GiveUp"
             THEN setState(r.c, t, "Failed")
             ELSE r.c

\* Tileset::notifyTileUnloading and Tile::unloadContent on the content
\* functions: refused while the tile is loading, else the tile is Unloaded.
canUnloadContent(st, t) == st[t] # "ContentLoading"

\* ------------------------------------------------------------ LRU list

\* Tileset::_markTileVisited: (re)insert the tile at the tail of the list.
markTileVisited(c, t) ==
    [c EXCEPT !.loadedTiles = Append(Without(@, t), t),
              !.visited = @ \cup {t}]

\* ------------------------------------------------------------ load queues

\* Load priority of a tile for the camera of the frame (lower = more urgent).
Priority(cam, t) == IF cam = "forward" THEN t ELSE NumTiles + 1 - t

LoadRecord(t, p) == [pTile |-> t, priority |-> p]

\* the tiles of a load queue, in the order of the queue
tilesOfQueue(q) == [i \in 1..Len(q) |-> q[i].pTile]

pushToQueue(c, queue, rec) ==
    CASE queue = "High" -> [c EXCEPT !.high = Append(@, rec)]
      [] queue = "Medium" -> [c EXCEPT !.medium = Append(@, rec)]
      [] queue = "Low" -> [c EXCEPT !.low = Append(@, rec)]

\* addTileToLoadQueue that takes a tile without content to Done at once
addTileToLoadQueueSkippingToDone(queue, f, t, c) ==
    IF c.state[t] = "Unloaded"
    THEN IF emptyContentUri(t)
         THEN setState(c, t, "Done")
         ELSE pushToQueue(c, queue, LoadRecord(t, Priority(f.view.cam, t)))
    ELSE c

\* Tileset::addTileToLoadQueue (tiles of explicit tilesets, no overlays).
addTileToLoadQueue(queue, f, t, c) ==
    IF c.state[t] = "Unloaded"
    THEN IF emptyContentUri(t)
         THEN setState(c, t, "ContentLoaded")
         ELSE pushToQueue(c, queue, LoadRecord(t, Priority(f.view.cam, t)))
    ELSE c

\* ------------------------------------------------- no-longer-rendered list

markTileNonRenderedResult(lastResult, t, c) ==
    IF lastResult = "Rendered"
    THEN [c EXCEPT !.noLonger = Append(@, t)]
    ELSE c

markTileNonRendered(lastFrameNumber, t, c) ==
    markTileNonRenderedResult(getResult(c.sel[t], lastFrameNumber), t, c)

RECURSIVE markChildrenNonRenderedFrom(_, _, _, _, _)
RECURSIVE markChildrenNonRenderedResult(_, _, _, _)
\* the loop over the children of markChildrenNonRendered, from child i on
markChildrenNonRenderedFrom(i, lastFrameNumber, lastResult, t, c) ==
    IF i > Len(getChildren(t)) THEN c
    ELSE LET child == getChildren(t)[i]
             childLastResult == getResult(c.sel[child], lastFrameNumber)
             c1 == markTileNonRenderedResult(childLastResult, child, c)
             c2 == markChildrenNonRenderedResult(
                       lastFrameNumber, childLastResult, child, c1)
         IN  markChildrenNonRenderedFrom(
                 i + 1, lastFrameNumber, lastResult, t, c2)

markChildrenNonRenderedResult(lastFrameNumber, lastResult, t, c) ==
    IF lastResult = "Refined"
    THEN markChildrenNonRenderedFrom(1, lastFrameNumber, lastResult, t, c)
    ELSE c

\* markChildrenNonRendered that reports the tile itself as well
markChildrenNonRenderedAndTile(lastFrameNumber, t, c) ==
    markChildrenNonRenderedResult(
        lastFrameNumber, getResult(c.sel[t], lastFrameNumber), t,
        markTileNonRenderedResult("Rendered", t, c))

markChildrenNonRendered(lastFrameNumber, t, c) ==
    markChildrenNonRenderedResult(
        lastFrameNumber, getResult(c.sel[t], lastFrameNumber), t, c)

markTileAndChildrenNonRendered(lastFrameNumber, t, c) ==
    LET lastResult == getResult(c.sel[t], lastFrameNumber)
    IN  markChildrenNonRenderedResult(
            lastFrameNumber, lastResult, t,
            markTileNonRenderedResult(lastResult, t, c))

\* ---------------------------------------------------------- the traversal

\* TraversalDetails
TraversalDetails(all, any, count) ==
    [allAreRenderable |-> all,
     anyWereRenderedLastFrame |-> any,
     notYetRenderableCount |-> count]

DefaultTraversalDetails == TraversalDetails(TRUE, FALSE, 0)

setLastSelectionState(c, t, s) == [c EXCEPT !.sel[t] = s]

pushToRenderList(c, t) == [c EXCEPT !.render = Append(@, t)]

\* The TraversalDetails of a tile that renders itself (leaf or inner tile)
renderedTraversalDetails(f, t, lastFrameSelectionState, c) ==
    [c |-> c,
     d |-> TraversalDetails(
               isRenderable(c, t),
               getResult(lastFrameSelectionState, f.lastFrameNumber)
                   = "Rendered",
               IF isRenderable(c, t) THEN 0 ELSE 1)]

\* Tileset::_renderLeaf
renderLeaf(f, t, c) ==
    renderedTraversalDetails(
        f, t, c.sel[t],
        addTileToLoadQueue(
            "Medium", f, t,
            pushToRenderList(
                setLastSelectionState(
                    c, t, TileSelectionState(f.currentFrameNumber, "Rendered")),
                t)))

RECURSIVE queueLoadOfChildrenFrom(_, _, _, _)
\* the loop of _queueLoadOfChildrenRequiredForRefinement, from child i on
\* (no child is an external tileset)
queueLoadOfChildrenFrom(i, f, t, r) ==
    IF i > Len(getChildren(t)) THEN r
    ELSE IF ~isRenderable(r.c, getChildren(t)[i])
    THEN queueLoadOfChildrenFrom(
             i + 1, f, t,
             [c |-> addTileToLoadQueue(
                        "Medium", f, getChildren(t)[i],
                        markTileVisited(
                            update(processLoadedContent(r.c, t),
                                   getChildren(t)[i]),
                            getChildren(t)[i])),
              waitingForChildren |-> TRUE])
    ELSE queueLoadOfChildrenFrom(i + 1, f, t, r)

\* History of a call of _queueLoadOfChildrenRequiredForRefinement that
\* returned true: c is the state the call began with, r its result.  The
\* record holds the tile, the children that were not renderable, their load
\* states at the end of the call, and the children the call pushed on Medium.
recordWait(t, c, r) ==
    IF ~r.waitingForChildren THEN r
    ELSE [r EXCEPT !.c.waits =
             Append(@,
                 [tile |-> t,
                  children |-> {k \in Range(getChildren(t)) :
                                   ~isRenderable(c, k)},
                  states |-> [k \in Range(getChildren(t)) |-> r.c.state[k]],
                  pushed |-> Range(SubSeq(tilesOfQueue(r.c.medium),
                                          Len(c.medium) + 1,
                                          Len(r.c.medium)))])]

\* Tileset::_queueLoadOfChildrenRequiredForRefinement
queueLoadOfChildrenRequiredForRefinement(f, t, c) ==
    IF ~options.forbidHoles
    THEN [c |-> c, waitingForChildren |-> FALSE]
    ELSE recordWait(
             t, c,
             queueLoadOfChildrenFrom(
                 1, f, t, [c |-> c, waitingForChildren |-> FALSE]))

RECURSIVE largestSseFrom(_, _, _, _)
\* the loop of _meetsSse over the frustums and their distances, from i on;
\* sses[i] is the screen-space error frustum i computes at distance i
largestSseFrom(i, sses, distances, largestSse) ==
    IF ~(i <= Len(sses) /\ i <= distances) THEN largestSse
    ELSE largestSseFrom(
             i + 1, sses, distances,
             IF sses[i] > largestSse THEN sses[i] ELSE largestSse)

\* Tileset::_meetsSse on the screen-space errors of the frustums and the
\* number of distances
meetsSseOf(sses, distances, culled) ==
    IF culled
    THEN \/ ~options.enforceCulledScreenSpaceError
         \/ largestSseFrom(1, sses, distances, 0)
                < options.culledScreenSpaceError
    ELSE largestSseFrom(1, sses, distances, 0)
             < options.maximumScreenSpaceError

\* Tileset::_meetsSse in the traversal: the tiles whose screen-space error
\* meets the threshold are given with the view of the frame.
meetsSse(f, t) == t \in f.view.meetsSse

\* the test of _visitTile that refines a tile whenever no ancestor meets the
\* screen-space error, without a look at the tile's own error
rendersOrHoldsByAncestorOnly(unconditionallyRefine, tileMeetsSse, ancestorMeetsSse, waitingForChildren) ==
    /\ ~unconditionallyRefine
    /\ ancestorMeetsSse \/ waitingForChildren

\* _visitTile: whether the tile is the one to render this frame (or to hold
\* back), in place of being refined at once
rendersOrHolds(unconditionallyRefine, tileMeetsSse, ancestorMeetsSse, waitingForChildren) ==
    /\ ~unconditionallyRefine
    /\ tileMeetsSse \/ ancestorMeetsSse \/ waitingForChildren

\* shouldRenderThisTile
shouldRenderThisTile(c, t, lastFrameSelectionState, lastFrameNumber) ==
    \/ getOriginalResult(lastFrameSelectionState, lastFrameNumber)
           = "Rendered"
    \/ getOriginalResult(lastFrameSelectionState, lastFrameNumber)
           \in {"Culled", "None"}
    \/ isRenderable(c, t)

\* Tileset::_renderInnerTile
renderInnerTile(f, t, c) ==
    renderedTraversalDetails(
        f, t, c.sel[t],
        pushToRenderList(
            setLastSelectionState(
                markChildrenNonRendered(f.lastFrameNumber, t, c),
                t, TileSelectionState(f.currentFrameNumber, "Rendered")),
            t))

\* Tileset::_refineToNothing
refineToNothing(f, t, c, areChildrenRenderable) ==
    [c |-> setLastSelectionState(
               IF refine[t] = "Add"
               THEN c
               ELSE markTileNonRendered(f.lastFrameNumber, t, c),
               t, TileSelectionState(f.currentFrameNumber, "Refined")),
     d |-> IF refine[t] = "Add"
           THEN TraversalDetails(
                    isRenderable(c, t),
                    getResult(c.sel[t], f.lastFrameNumber) = "Rendered",
                    IF areChildrenRenderable THEN 0 ELSE 1)
           ELSE DefaultTraversalDetails]

\* Tileset::_loadAndRenderAdditiveRefinedTile
loadAndRenderAdditiveRefinedTile(f, t, c) ==
    IF refine[t] = "Add"
    THEN [c |-> addTileToLoadQueue("Medium", f, t, pushToRenderList(c, t)),
          queuedForLoad |-> TRUE]
    ELSE [c |-> c, queuedForLoad |-> FALSE]

\* the kick of a rendered descendant that leaves its ancestors alone
kickWorkTileWithoutAncestors(selfn, pWorkTile, t, currentFrameNumber) ==
    IF \/ pWorkTile = 0
       \/ wasKicked(selfn[pWorkTile], currentFrameNumber)
       \/ pWorkTile = t
    THEN selfn
    ELSE [selfn EXCEPT ![pWorkTile] = kick(@)]

RECURSIVE kickWorkTilePastTile(_, _, _, _)
\* the inner loop of the kick without the stop at the tile being visited
kickWorkTilePastTile(selfn, pWorkTile, t, currentFrameNumber) ==
    IF \/ pWorkTile = 0
       \/ wasKicked(selfn[pWorkTile], currentFrameNumber)
    THEN selfn
    ELSE kickWorkTilePastTile(
             [selfn EXCEPT ![pWorkTile] = kick(@)],
             getParent(pWorkTile), t, currentFrameNumber)

RECURSIVE kickWorkTile(_, _, _, _)
\* the inner loop of the kick: from pWorkTile up to (excluding) the tile
kickWorkTile(selfn, pWorkTile, t, currentFrameNumber) ==
    IF \/ pWorkTile = 0
       \/ wasKicked(selfn[pWorkTile], currentFrameNumber)
       \/ pWorkTile = t
    THEN selfn
    ELSE kickWorkTile(
             [selfn EXCEPT ![pWorkTile] = kick(@)],
             getParent(pWorkTile), t, currentFrameNumber)

RECURSIVE kickRenderedDescendants(_, _, _, _, _)
\* the outer loop of the kick over renderList[i..]
kickRenderedDescendants(selfn, renderList, i, t, currentFrameNumber) ==
    IF i > Len(renderList) THEN selfn
    ELSE kickRenderedDescendants(
             kickWorkTile(selfn, renderList[i], t, currentFrameNumber),
             renderList, i + 1, t, currentFrameNumber)

\* a kick that pushes the tile whatever its refinement
kickAndRenderAlwaysPushing(f, t, c, firstRenderedDescendantIndex) ==
    [c EXCEPT
       !.sel = [kickRenderedDescendants(
                    c.sel, c.render, firstRenderedDescendantIndex + 1, t,
                    f.currentFrameNumber)
                EXCEPT ![t] =
                    TileSelectionState(f.currentFrameNumber, "Rendered")],
       !.render = Append(Prefix(@, firstRenderedDescendantIndex), t)]

\* a kick that renders the tile and leaves the descendants' entries in the
\* render list
kickAndRenderKeepingDescendants(f, t, c, firstRenderedDescendantIndex) ==
    [c EXCEPT
       !.sel = [kickRenderedDescendants(
                    c.sel, c.render, firstRenderedDescendantIndex + 1, t,
                    f.currentFrameNumber)
                EXCEPT ![t] =
                    TileSelectionState(f.currentFrameNumber, "Rendered")],
       !.render = IF refine[t] # "Add" THEN Append(@, t) ELSE @]

\* _kickDescendantsAndRenderTile, first part: the descendants are marked
\* kicked and leave the render list, the tile is rendered instead.  The
\* index counts the entries that precede the descendants' entries.
kickAndRender(f, t, c, firstRenderedDescendantIndex) ==
    [c EXCEPT
       !.sel = [kickRenderedDescendants(
                    c.sel, c.render, firstRenderedDescendantIndex + 1, t,
                    f.currentFrameNumber)
                EXCEPT ![t] =
                    TileSelectionState(f.currentFrameNumber, "Rendered")],
       !.render = IF refine[t] # "Add"
                  THEN Append(Prefix(@, firstRenderedDescendantIndex), t)
                  ELSE Prefix(@, firstRenderedDescendantIndex)]

\* the erase of the descendants' entries from the three load queues
rewindLoadQueues(c, loadIndexLow, loadIndexMedium, loadIndexHigh) ==
    [c EXCEPT !.low = Prefix(@, loadIndexLow),
              !.medium = Prefix(@, loadIndexMedium),
              !.high = Prefix(@, loadIndexHigh),
              !.rewinds = @ + 1]

kickedTraversalDetails(t, c, wasRenderedLastFrame, count, queuedForLoad) ==
    [c |-> c,
     d |-> TraversalDetails(
               isRenderable(c, t),
               wasRenderedLastFrame,
               IF count < 0
               THEN (IF isRenderable(c, t) THEN 0 ELSE 1)
               ELSE count),
     queuedForLoad |-> queuedForLoad]

\* the second part of the kick that already rewinds when the count of
\* descendants not yet renderable equals the limit
kickAndLoadAtLimit(f, t, c, wasRenderedLastFrame, traversalDetails, loadIndexLow, loadIndexMedium, loadIndexHigh, queuedForLoad) ==
    IF /\ ~(wasRenderedLastFrame /\ isRenderable(c, t))
       /\ traversalDetails.notYetRenderableCount
              >= options.loadingDescendantLimit
    THEN kickedTraversalDetails(
             t,
             IF ~queuedForLoad
             THEN addTileToLoadQueue(
                      "Medium", f, t,
                      rewindLoadQueues(
                          c, loadIndexLow, loadIndexMedium, loadIndexHigh))
             ELSE rewindLoadQueues(
                      c, loadIndexLow, loadIndexMedium, loadIndexHigh),
             wasRenderedLastFrame, -1, TRUE)
    ELSE kickedTraversalDetails(
             t, c, wasRenderedLastFrame,
             traversalDetails.notYetRenderableCount, queuedForLoad)

\* _kickDescendantsAndRenderTile, second part: with too many descendants
\* not yet renderable, the tile is loaded instead of them
kickAndLoad(f, t, c, wasRenderedLastFrame, traversalDetails, loadIndexLow, loadIndexMedium, loadIndexHigh, queuedForLoad) ==
    IF /\ ~(wasRenderedLastFrame /\ isRenderable(c, t))
       /\ traversalDetails.notYetRenderableCount
              > options.loadingDescendantLimit
    THEN kickedTraversalDetails(
             t,
             IF ~queuedForLoad
             THEN addTileToLoadQueue(
                      "Medium", f, t,
                      rewindLoadQueues(
                          c, loadIndexLow, loadIndexMedium, loadIndexHigh))
             ELSE rewindLoadQueues(
                      c, loadIndexLow, loadIndexMedium, loadIndexHigh),
             wasRenderedLastFrame, -1, TRUE)
    ELSE kickedTraversalDetails(
             t, c, wasRenderedLastFrame,
             traversalDetails.notYetRenderableCount, queuedForLoad)

\* History of a call of _kickDescendantsAndRenderTile: c is the state the
\* call began with, k its result.  The record holds the tile, the entries
\* erased from the render list, the count of descendants not yet renderable
\* the call was given, the load state of the tile and the load queues at the
\* beginning of the call, the selection states and the load queues at the
\* end of the call, and whether the load queues were rewound.
recordKick(t, c, traversalDetails, firstRenderedDescendantIndex, loadIndices, queuedForLoad, k) ==
    [k EXCEPT !.c.kicks =
        Append(@,
            [tile |-> t,
             removed |-> SubSeq(c.render, firstRenderedDescendantIndex + 1,
                                Len(c.render)),
             notYetRenderableCount |->
                 traversalDetails.notYetRenderableCount,
             queuedForLoad |-> queuedForLoad,
             renderable |-> isRenderable(c, t),
             state |-> c.state[t],
             loadIndices |-> loadIndices,
             highBefore |-> tilesOfQueue(c.high),
             mediumBefore |-> tilesOfQueue(c.medium),
             lowBefore |-> tilesOfQueue(c.low),
             rewound |-> k.c.rewinds > c.rewinds,
             selBefore |-> c.sel,
             sel |-> k.c.sel,
             render |-> k.c.render,
             queuedBefore |-> tilesOfQueue(c.high \o c.medium \o c.low),
             high |-> tilesOfQueue(k.c.high),
             medium |-> tilesOfQueue(k.c.medium),
             low |-> tilesOfQueue(k.c.low)])]

\* Tileset::_kickDescendantsAndRenderTile
kickDescendantsAndRenderTile(f, t, c, traversalDetails, firstRenderedDescendantIndex, loadIndexLow, loadIndexMedium, loadIndexHigh, queuedForLoad) ==
    recordKick(
        t, c, traversalDetails, firstRenderedDescendantIndex,
        [low |-> loadIndexLow, medium |-> loadIndexMedium,
         high |-> loadIndexHigh],
        queuedForLoad,
        kickAndLoad(
            f, t, kickAndRender(f, t, c, firstRenderedDescendantIndex),
            getResult(c.sel[t], f.lastFrameNumber) = "Rendered",
            traversalDetails, loadIndexLow, loadIndexMedium, loadIndexHigh,
            queuedForLoad))

\* _visitTile, the branch that records the tile as Refined
refinedTile(f, t, c, traversalDetails, queuedForLoad) ==
    [c |-> setLastSelectionState(
               IF refine[t] # "Add"
               THEN markTileNonRendered(f.lastFrameNumber, t, c)
               ELSE c,
               t, TileSelectionState(f.currentFrameNumber, "Refined")),
     d |-> traversalDetails,
     queuedForLoad |-> queuedForLoad]

\* _visitTile, the end: an ancestor that was not queued is preloaded
preloadAncestor(f, t, k) ==
    [c |-> IF options.preloadAncestors /\ ~k.queuedForLoad
           THEN addTileToLoadQueue("Low", f, t, k.c)
           ELSE k.c,
     d |-> k.d]

\* History of a visit whose children added tiles to the render list: a is
\* the state before the children, v the result of visiting them, k the
\* result of the visit.  The record holds the tile, the aggregate of the
\* children, the entries they added, and the render list and the selection
\* states at the end of the visit.
recordRefinement(t, a, v, k) ==
    [k EXCEPT !.c.refinements =
        Append(@,
            [tile |-> t,
             allAreRenderable |-> v.d.allAreRenderable,
             anyWereRenderedLastFrame |-> v.d.anyWereRenderedLastFrame,
             added |-> SubSeq(v.c.render, Len(a.c.render) + 1,
                              Len(v.c.render)),
             render |-> k.c.render,
             sel |-> k.c.sel])]

\* _visitTile after the children were visited: a is the state before the
\* children (with the rewind points), v the result of visiting them
refineTileResult(f, t, a, v) ==
    IF Len(a.c.render) = Len(v.c.render)
    THEN refineToNothing(f, t, v.c, v.d.allAreRenderable)
    ELSE recordRefinement(
             t, a, v,
             preloadAncestor(
                 f, t,
                 IF ~v.d.allAreRenderable /\ ~v.d.anyWereRenderedLastFrame
                 THEN kickDescendantsAndRenderTile(
                          f, t, v.c, v.d, Len(a.c.render), Len(a.c.low),
                          Len(a.c.medium), Len(a.c.high), a.queuedForLoad)
                 ELSE refinedTile(f, t, v.c, v.d, a.queuedForLoad)))

addTraversalDetails(r, v) ==
    [c |-> v.c,
     d |-> TraversalDetails(
               r.d.allAreRenderable /\ v.d.allAreRenderable,
               r.d.anyWereRenderedLastFrame \/ v.d.anyWereRenderedLastFrame,
               r.d.notYetRenderableCount + v.d.notYetRenderableCount)]

RECURSIVE visitTileIfNeeded(_, _, _, _)
RECURSIVE visitTileIfNeededVisited(_, _, _, _)
RECURSIVE visitTile(_, _, _, _)
RECURSIVE visitTileQueued(_, _, _, _)
RECURSIVE refineTile(_, _, _, _)
RECURSIVE refineTileChildren(_, _, _, _)
RECURSIVE visitVisibleChildrenFrom(_, _, _, _, _)

\* the loop of _visitVisibleChildrenNearToFar, from child i on
visitVisibleChildrenFrom(i, f, ancestorMeetsSse, t, r) ==
    IF i > Len(getChildren(t)) THEN r
    ELSE visitVisibleChildrenFrom(
             i + 1, f, ancestorMeetsSse, t,
             addTraversalDetails(
                 r,
                 visitTileIfNeeded(
                     f, ancestorMeetsSse, getChildren(t)[i], r.c)))

\* Tileset::_visitVisibleChildrenNearToFar
visitVisibleChildrenNearToFar(f, ancestorMeetsSse, t, c) ==
    visitVisibleChildrenFrom(
        1, f, ancestorMeetsSse, t, [c |-> c, d |-> DefaultTraversalDetails])

\* _visitTile from "Refine!" on, after the additive tile was pushed
refineTileChildren(f, ancestorMeetsSse, t, a) ==
    refineTileResult(
        f, t, a, visitVisibleChildrenNearToFar(f, ancestorMeetsSse, t, a.c))

\* _visitTile from "Refine!" on
refineTile(f, ancestorMeetsSse, t, c) ==
    refineTileChildren(
        f, ancestorMeetsSse, t, loadAndRenderAdditiveRefinedTile(f, t, c))

\* _visitTile of an inner tile, after the children required for refinement
\* were queued (q)
visitTileQueued(f, ancestorMeetsSse, t, q) ==
    IF rendersOrHolds(
           getUnconditionallyRefine(t), meetsSse(f, t), ancestorMeetsSse,
           q.waitingForChildren)
    THEN IF shouldRenderThisTile(q.c, t, q.c.sel[t], f.lastFrameNumber)
         THEN renderInnerTile(
                  f, t,
                  IF meetsSse(f, t) /\ ~ancestorMeetsSse
                  THEN addTileToLoadQueue("Medium", f, t, q.c)
                  ELSE q.c)
         ELSE refineTile(
                  f, TRUE, t,
                  IF meetsSse(f, t)
                  THEN addTileToLoadQueue("High", f, t, q.c)
                  ELSE q.c)
    ELSE refineTile(f, ancestorMeetsSse, t, q.c)

\* Tileset::_visitTile
visitTile(f, ancestorMeetsSse, t, c) ==
    IF isLeaf(t)
    THEN renderLeaf(f, t, [c EXCEPT !.tilesVisited = @ + 1])
    ELSE visitTileQueued(
             f, ancestorMeetsSse, t,
             queueLoadOfChildrenRequiredForRefinement(
                 f, t, [c EXCEPT !.tilesVisited = @ + 1]))

\* the tile is not to be visited: it is Culled
culledTile(f, t, c) ==
    [c |-> IF options.preloadSiblings
           THEN addTileToLoadQueue("Low", f, t, c)
           ELSE c,
     d |-> DefaultTraversalDetails]

\* History of the visit of a tile that is not to be visited: c is the state
\* the visit began with, k its result.  The record holds the tile, its load
\* state, and the selection states, the lists of the result and the load
\* queues at the beginning and at the end of the visit.
recordCulled(t, c, k) ==
    [k EXCEPT !.c.culls =
        Append(@,
            [tile |-> t,
             state |-> c.state[t],
             selBefore |-> c.sel,
             sel |-> k.c.sel,
             renderBefore |-> c.render,
             render |-> k.c.render,
             noLongerBefore |-> c.noLonger,
             noLonger |-> k.c.noLonger,
             queuedBefore |-> [high |-> tilesOfQueue(c.high),
                               medium |-> tilesOfQueue(c.medium),
                               low |-> tilesOfQueue(c.low)],
             queued |-> [high |-> tilesOfQueue(k.c.high),
                         medium |-> tilesOfQueue(k.c.medium),
                         low |-> tilesOfQueue(k.c.low)]])]

\* _visitTileIfNeeded after the tile was updated and marked visited; a tile
\* of view.culled is not to be visited (excluded, frustum-culled or
\* fog-culled with the culling enabled).
visitTileIfNeededVisited(f, ancestorMeetsSse, t, c) ==
    IF t \in f.view.culled
    THEN recordCulled(
             t, c,
             culledTile(
                 f, t,
                 setLastSelectionState(
                     markTileAndChildrenNonRendered(f.lastFrameNumber, t, c),
                     t, TileSelectionState(f.currentFrameNumber, "Culled"))))
    ELSE visitTile(f, ancestorMeetsSse, t, c)

\* Tileset::_visitTileIfNeeded
visitTileIfNeeded(f, ancestorMeetsSse, t, c) ==
    visitTileIfNeededVisited(
        f, ancestorMeetsSse, t,
        markTileVisited(update(processLoadedContent(c, t), t), t))

\* ---------------------------------------------------------------- eviction

\* Tileset::getTotalDataBytes: tile bytes plus the bytes of the overlays
getTotalDataBytes(tileDataBytes) == tileDataBytes + options.overlayDataBytes

\* Tile::unloadContent with Tileset::notifyTileUnloading, on the walk record
unloadContent(e, t) ==
    IF canUnloadContent(e.state, t)
    THEN [e EXCEPT !.state[t] = "Unloaded",
                   !.content[t] = "null",
                   !.bytes = @ - computeByteSize(e.content, t),
                   !.removed = TRUE]
    ELSE [e EXCEPT !.removed = FALSE]

\* the eviction with an if in place of the while: one tile at most
unloadCachedTilesOnce(i, walk, e) ==
    IF ~(getTotalDataBytes(e.bytes) > options.maximumCachedBytes)
    THEN [e EXCEPT !.walkEnd = "budget"]
    ELSE IF i > Len(walk) THEN [e EXCEPT !.walkEnd = "end"]
    ELSE IF walk[i] = 1 THEN [e EXCEPT !.walkEnd = "root"]
    ELSE IF unloadContent(e, walk[i]).removed
    THEN [unloadContent(e, walk[i]) EXCEPT
             !.loadedTiles = Without(@, walk[i]),
             !.evicted = Append(@, walk[i]),
             !.walkEnd = "budget"]
    ELSE [e EXCEPT !.refused = Append(@, walk[i]), !.walkEnd = "budget"]

RECURSIVE unloadCachedTilesPastRoot(_, _, _)
\* the eviction without the test for the root tile
unloadCachedTilesPastRoot(i, walk, e) ==
    IF ~(getTotalDataBytes(e.bytes) > options.maximumCachedBytes)
    THEN [e EXCEPT !.walkEnd = "budget"]
    ELSE IF i > Len(walk) THEN [e EXCEPT !.walkEnd = "end"]
    ELSE unloadCachedTilesPastRoot(
             i + 1, walk,
             IF unloadContent(e, walk[i]).removed
             THEN [unloadContent(e, walk[i]) EXCEPT
                      !.loadedTiles = Without(@, walk[i]),
                      !.evicted = Append(@, walk[i])]
             ELSE [e EXCEPT !.refused = Append(@, walk[i])])

RECURSIVE unloadCachedTilesUntilRefused(_, _, _)
\* the eviction that gives up at the first tile whose unload is refused
unloadCachedTilesUntilRefused(i, walk, e) ==
    IF ~(getTotalDataBytes(e.bytes) > options.maximumCachedBytes)
    THEN [e EXCEPT !.walkEnd = "budget"]
    ELSE IF i > Len(walk) THEN [e EXCEPT !.walkEnd = "end"]
    ELSE IF walk[i] = 1 THEN [e EXCEPT !.walkEnd = "root"]
    ELSE IF ~unloadContent(e, walk[i]).removed
    THEN [e EXCEPT !.refused = Append(@, walk[i]), !.walkEnd = "root"]
    ELSE unloadCachedTilesUntilRefused(
             i + 1, walk,
             [unloadContent(e, walk[i]) EXCEPT
                 !.loadedTiles = Without(@, walk[i]),
                 !.evicted = Append(@, walk[i])])

RECURSIVE unloadCachedTilesFrom(_, _, _)
\* the loop of _unloadCachedTiles; pTile is walk[i], and walk is the list
\* as it was when the walk began (pNext is read before the removal)
unloadCachedTilesFrom(i, walk, e) ==
    IF ~(getTotalDataBytes(e.bytes) > options.maximumCachedBytes)
    THEN [e EXCEPT !.walkEnd = "budget"]
    ELSE IF i > Len(walk) THEN [e EXCEPT !.walkEnd = "end"]
    ELSE IF walk[i] = 1 THEN [e EXCEPT !.walkEnd = "root"]
    ELSE LET u == unloadContent(e, walk[i])
         IN  unloadCachedTilesFrom(
                 i + 1, walk,
                 IF u.removed
                 THEN [u EXCEPT !.loadedTiles = Without(@, walk[i]),
                                !.evicted = Append(@, walk[i])]
                 ELSE [u EXCEPT !.refused = Append(@, walk[i])])

\* Tileset::_unloadCachedTiles
unloadCachedTiles(c, tileDataBytes) ==
    unloadCachedTilesFrom(
        1, c.loadedTiles,
        [state |-> c.state, content |-> c.content, bytes |-> tileDataBytes,
         loadedTiles |-> c.loadedTiles, removed |-> FALSE,
         evicted |-> <<>>, refused |-> <<>>, walkEnd |-> "budget"])

\* ---------------------------------------------------------------- dispatch

RECURSIVE insertSorted(_, _)
insertSorted(q, rec) ==
    IF q = <<>> THEN <<rec>>
    ELSE IF rec.priority < Head(q).priority THEN <<rec>> \o q
    ELSE <<Head(q)>> \o insertSorted(Tail(q), rec)

RECURSIVE sortQueue(_)
\* std::sort of the load records, ascending by priority
sortQueue(q) ==
    IF q = <<>> THEN <<>>
    ELSE insertSorted(sortQueue(Prefix(q, Len(q) - 1)), q[Len(q)])

\* Tile::loadContent with Tileset::requestTileContent: only an Unloaded
\* tile starts a load, which is counted by notifyTileStartLoading.
loadContent(p, t) ==
    IF p.state[t] = "Unloaded"
    THEN [p EXCEPT !.state[t] = "ContentLoading",
                   !.loads = @ + 1,
                   !.started = Append(@, t)]
    ELSE p

RECURSIVE processQueueFromUnlimited(_, _, _, _)
\* the loop of processQueue without the break at the limit
processQueueFromUnlimited(i, queue, maximumLoadsInProgress, p) ==
    IF i > Len(queue) THEN p
    ELSE processQueueFromUnlimited(
             i + 1, queue, maximumLoadsInProgress,
             [loadContent(p, queue[i].pTile) EXCEPT !.called = i])

RECURSIVE processQueueFrom(_, _, _, _)
\* the loop of processQueue over the sorted queue, from record i on
processQueueFrom(i, queue, maximumLoadsInProgress, p) ==
    IF i > Len(queue) THEN p
    ELSE LET p1 == [loadContent(p, queue[i].pTile) EXCEPT !.called = i]
         IN  IF p1.loads >= maximumLoadsInProgress
             THEN p1
             ELSE processQueueFrom(i + 1, queue, maximumLoadsInProgress, p1)

\* Tileset::processQueue; the result holds the queue as the call leaves it,
\* the counter, the tile states, the loads started, and the number of
\* records loadContent was called for.
processQueue(queue, loadsInProgress, maximumLoadsInProgress, st) ==
    LET p0 == [queue |-> queue, loads |-> loadsInProgress, state |-> st,
               started |-> <<>>, called |-> 0,
               inFlight |-> loadsInProgress, size |-> Len(queue)]
    IN  IF loadsInProgress >= maximumLoadsInProgress
        THEN p0
        ELSE processQueueFrom(
                 1, sortQueue(queue), maximumLoadsInProgress,
                 [p0 EXCEPT !.queue = sortQueue(queue)])

\* Tileset::_processLoadQueue: High, then Medium, then Low
processLoadQueue(high, medium, low, loadsInProgress, st) ==
    LET h == processQueue(
                 high, loadsInProgress,
                 options.maximumSimultaneousTileLoads, st)
        m == processQueue(
                 medium, h.loads,
                 options.maximumSimultaneousTileLoads, h.state)
        l == processQueue(
                 low, m.loads,
                 options.maximumSimultaneousTileLoads, m.state)
    IN  [High |-> h, Medium |-> m, Low |-> l]

\* ------------------------------------------------------------ token refresh

RECURSIVE handleTokenRefreshTilesOfAllContexts(_, _, _, _, _)
\* the loop of _handleTokenRefreshResponse without the test of the context
handleTokenRefreshTilesOfAllContexts(i, walk, pContext, failed, e) ==
    IF i > Len(walk) THEN e
    ELSE handleTokenRefreshTilesOfAllContexts(
             i + 1, walk, pContext, failed,
             IF /\ e.state[walk[i]] = "FailedTemporarily"
                /\ e.content[walk[i]] = "http401"
             THEN IF failed
                  THEN [e EXCEPT !.state[walk[i]] = "Failed"]
                  ELSE unloadContent(e, walk[i])
             ELSE e)

RECURSIVE handleTokenRefreshTilesFrom(_, _, _, _, _)
\* the loop of _handleTokenRefreshResponse over the list of loaded tiles
handleTokenRefreshTilesFrom(i, walk, pContext, failed, e) ==
    IF i > Len(walk) THEN e
    ELSE LET t == walk[i]
         IN  handleTokenRefreshTilesFrom(
                 i + 1, walk, pContext, failed,
                 IF /\ getContext(t) = pContext
                    /\ e.state[t] = "FailedTemporarily"
                    /\ e.content[t] = "http401"
                 THEN IF failed
                      THEN [e EXCEPT !.state[t] = "Failed"]
                      ELSE unloadContent(e, t)
                 ELSE e)

\* Tileset::_handleTokenRefreshResponse on the tiles; failed is whether the
\* response was missing, not 2xx, or not parseable (updateContextWithNewToken)
handleTokenRefreshResponse(pContext, failed) ==
    handleTokenRefreshTilesFrom(
        1, _loadedTiles, pContext, failed,
        [state |-> state, content |-> content, bytes |-> _tileDataBytes,
         removed |-> FALSE])

\* ------------------------------------------------------------------ views

Cameras == {"forward", "backward"}

\* The view of a frame: the tiles that are not to be visited, the tiles whose
\* screen-space error meets the threshold, and the camera.  A tile below a
\* culled tile is never reached, so only tiles 2 and 3 are culled; a leaf is
\* never asked for its screen-space error.
Views ==
    {v \in [culled : {{}, {2}, {3}}, meetsSse : {{}, {1}, {2}}, cam : Cameras] :
        /\ v.culled \cap v.meetsSse = {}
        /\ v.cam = "backward" => v.culled = {} /\ v.meetsSse = {}}

\* ViewUpdateResult(): the lists and the statistics of a frame
EmptyResult ==
    [tilesToRenderThisFrame |-> <<>>, tilesToNoLongerRenderThisFrame |-> <<>>,
     tilesVisited |-> 0, tilesCulled |-> 0,
     tilesLoadingLowPriority |-> 0, tilesLoadingMediumPriority |-> 0,
     tilesLoadingHighPriority |-> 0]

Queues == {"High", "Medium", "Low"}

NoFrame ==
    [number |-> 0, frustums |-> FALSE, prevRender |-> <<>>, visited |-> {},
     ionFailures |-> 0, kicks |-> <<>>, waits |-> <<>>, refinements |-> <<>>, culls |-> <<>>, moves |-> <<>>, traversed |-> [t \in Tiles |-> "Unloaded"], walk |-> <<>>, bytes |-> 0, evicted |-> <<>>, refused |-> <<>>, walkEnd |-> "budget",
     dispatch |-> [q \in Queues |->
                      [inFlight |-> 0, size |-> 0, started |-> <<>>,
                       called |-> 0]]]

\* ---------------------------------------------------------------- actions

\* updateView, the end: the frame's results are stored.  c is the state
\* after the traversal, e after _unloadCachedTiles, d after _processLoadQueue.
UpdateViewResult(f, haveFrustums, c, e, d) ==
    /\ state' = d.Low.state
    /\ content' = e.content
    /\ sel' = c.sel
    /\ _loadedTiles' = e.loadedTiles
    /\ _tileDataBytes' = e.bytes
    /\ _loadsInProgress' = d.Low.loads
    /\ _isRefreshingIonToken' = c.refreshing
    /\ ionRequests' = c.ionRequests
    /\ _updateResult' =
           IF haveFrustums
           THEN [tilesToRenderThisFrame |-> c.render,
                 tilesToNoLongerRenderThisFrame |-> c.noLonger,
                 tilesVisited |-> c.tilesVisited,
                 tilesCulled |-> Len(c.culls),
                 tilesLoadingLowPriority |-> Len(c.low),
                 tilesLoadingMediumPriority |-> Len(c.medium),
                 tilesLoadingHighPriority |-> Len(c.high)]
           ELSE EmptyResult
    /\ _loadQueueHigh' = d.High.queue
    /\ _loadQueueMedium' = d.Medium.queue
    /\ _loadQueueLow' = d.Low.queue
    /\ _previousFrameNumber' = f.currentFrameNumber
    /\ frame' =
           [number |-> f.currentFrameNumber,
            frustums |-> haveFrustums,
            prevRender |-> _updateResult.tilesToRenderThisFrame,
            visited |-> c.visited,
            ionFailures |-> c.reports,
            kicks |-> c.kicks,
            refinements |-> c.refinements,
            culls |-> c.culls,
            moves |-> c.moves,
            traversed |-> c.state,
            waits |-> c.waits,
            walk |-> c.loadedTiles,
            bytes |-> e.bytes,
            evicted |-> e.evicted,
            refused |-> e.refused,
            walkEnd |-> e.walkEnd,
            dispatch |-> [q \in Queues |->
                             [inFlight |-> d[q].inFlight,
                              size |-> d[q].size,
                              started |-> d[q].started,
                              called |-> d[q].called]]]

\* updateView after _unloadCachedTiles: _processLoadQueue
UpdateViewUnloaded(f, haveFrustums, c, e) ==
    UpdateViewResult(
        f, haveFrustums, c, e,
        processLoadQueue(c.high, c.medium, c.low, c.loads, e.state))

\* updateView after the traversal: _unloadCachedTiles
UpdateViewTraversed(f, haveFrustums, c) ==
    UpdateViewUnloaded(
        f, haveFrustums, c, unloadCachedTiles(c, _tileDataBytes))

\* the state the traversal of a frame starts from: empty result and queues
TraversalStart ==
    [state |-> state, content |-> content, sel |-> sel,
     loadedTiles |-> _loadedTiles, visited |-> {},
     render |-> <<>>, noLonger |-> <<>>,
     high |-> <<>>, medium |-> <<>>, low |-> <<>>,
     loads |-> _loadsInProgress,
     refreshing |-> _isRefreshingIonToken,
     ionRequests |-> ionRequests,
     reports |-> 0,
     rewinds |-> 0,
     tilesVisited |-> 0,
     kicks |-> <<>>,
     refinements |-> <<>>,
     culls |-> <<>>,
     moves |-> <<>>,
     waits |-> <<>>]

FrameState(view) ==
    [view |-> view,
     lastFrameNumber |-> _previousFrameNumber,
     currentFrameNumber |-> _previousFrameNumber + 1]

\* Tileset::updateView with a root tile; haveFrustums is whether the list of
\* frustums is non-empty.
UpdateViewOfRoot(view, haveFrustums) ==
    UpdateViewTraversed(
        FrameState(view), haveFrustums,
        IF haveFrustums
        THEN visitTileIfNeeded(FrameState(view), FALSE, 1, TraversalStart).c
        ELSE TraversalStart)

\* Tileset::updateView
UpdateView ==
    /\ _previousFrameNumber < MaxFrames
    /\ IF rootLoad # "ready"
       THEN /\ _updateResult' =
                   [_updateResult EXCEPT
                       !.tilesToRenderThisFrame = <<>>,
                       !.tilesToNoLongerRenderThisFrame = <<>>,
                       !.tilesVisited = 0,
                       !.tilesCulled = 0]
            /\ UNCHANGED <<state, content, sel, _loadedTiles, _tileDataBytes,
                           _loadsInProgress, _isRefreshingIonToken,
                           ionRequests, _loadQueueHigh, _loadQueueMedium,
                           _loadQueueLow, _previousFrameNumber, frame>>
       ELSE \E view \in Views : \E haveFrustums \in BOOLEAN :
                /\ ~haveFrustums =>
                       view = [culled |-> {}, meetsSse |-> {}, cam |-> "forward"]
                /\ UpdateViewOfRoot(view, haveFrustums)
    /\ lastOp' = [op |-> "updateView"]
    /\ UNCHANGED <<config, provider, rootLoad>>

\* Tileset::_handleAssetResponse: the answer of the ion endpoint at startup
HandleAssetResponse ==
    /\ rootLoad = "endpoint"
    /\ \E ok \in BOOLEAN :
           IF ok
           THEN /\ rootLoad' = "json"
                /\ UNCHANGED _loadsInProgress
           ELSE /\ rootLoad' = "failed"
                /\ _loadsInProgress' = _loadsInProgress - 1
    /\ lastOp' = [op |-> "handleAssetResponse"]
    /\ UNCHANGED <<config, provider, state, content, sel, _previousFrameNumber,
                   _isRefreshingIonToken, ionRequests, _loadedTiles,
                   _tileDataBytes, _updateResult, _loadQueueHigh,
                   _loadQueueMedium, _loadQueueLow, frame>>

\* continuations of _loadTilesetJson that do not count a failed load as finished
LoadTilesetJsonDoneUncounted ==
    /\ rootLoad = "json"
    /\ \E ok \in BOOLEAN :
           /\ rootLoad' = IF ok THEN "ready" ELSE "failed"
           /\ _loadsInProgress' = _loadsInProgress - (IF ok THEN 1 ELSE 0)
    /\ lastOp' = [op |-> "loadTilesetJson"]
    /\ UNCHANGED <<config, provider, state, content, sel, _previousFrameNumber,
                   _isRefreshingIonToken, ionRequests, _loadedTiles,
                   _tileDataBytes, _updateResult, _loadQueueHigh,
                   _loadQueueMedium, _loadQueueLow, frame>>

\* The main-thread continuations of Tileset::_loadTilesetJson
LoadTilesetJsonDone ==
    /\ rootLoad = "json"
    /\ \E ok \in BOOLEAN : rootLoad' = IF ok THEN "ready" ELSE "failed"
    /\ _loadsInProgress' = _loadsInProgress - 1
    /\ lastOp' = [op |-> "loadTilesetJson"]
    /\ UNCHANGED <<config, provider, state, content, sel, _previousFrameNumber,
                   _isRefreshingIonToken, ionRequests, _loadedTiles,
                   _tileDataBytes, _updateResult, _loadQueueHigh,
                   _loadQueueMedium, _loadQueueLow, frame>>

LoadOutcomes == {"ok", "http401", "httpError"}

\* The main-thread continuation of Tile::loadContent: the content arrives,
\* Tileset::notifyTileDoneLoading counts it, and the tile gets its state.
TileLoadCompleted ==
    \E t \in Tiles : \E outcome \in LoadOutcomes :
        /\ state[t] = "ContentLoading"
        /\ content' = [content EXCEPT ![t] =
                          IF outcome = "ok" THEN "model" ELSE outcome]
        /\ _loadsInProgress' = _loadsInProgress - 1
        /\ _tileDataBytes' = _tileDataBytes + computeByteSize(content', t)
        /\ state' = [state EXCEPT ![t] =
                        IF outcome = "ok" THEN "ContentLoaded"
                        ELSE "FailedTemporarily"]
        /\ lastOp' = [op |-> "tileLoadCompleted"]
        /\ UNCHANGED <<config, provider, rootLoad, sel, _previousFrameNumber,
                       _isRefreshingIonToken, ionRequests, _loadedTiles,
                       _updateResult, _loadQueueHigh, _loadQueueMedium,
                       _loadQueueLow, frame>>

RefreshOutcomes == {"ok", "failed", "exception"}

\* continuations of the refresh request whose exception handler does not
\* count the request as finished
TokenRefreshDoneUncountedException ==
    /\ ionRequests # <<>>
    /\ \E outcome \in RefreshOutcomes :
        LET pContext == Head(ionRequests)
            e == handleTokenRefreshResponse(pContext, outcome = "failed")
        IN  /\ IF outcome = "exception"
               THEN UNCHANGED <<state, content, _tileDataBytes,
                                _loadsInProgress>>
               ELSE /\ state' = e.state
                    /\ content' = e.content
                    /\ _tileDataBytes' = e.bytes
                    /\ _loadsInProgress' = _loadsInProgress - 1
            /\ lastOp' = [op |-> "tokenRefresh", outcome |-> outcome,
                          context |-> pContext, state |-> state,
                          content |-> content]
    /\ ionRequests' = Tail(ionRequests)
    /\ _isRefreshingIonToken' = FALSE
    /\ UNCHANGED <<config, provider, rootLoad, sel, _previousFrameNumber, _loadedTiles,
                   _updateResult, _loadQueueHigh, _loadQueueMedium,
                   _loadQueueLow, frame>>

\* The continuations of the refresh request of Tileset::_onIonTileFailed:
\* _handleTokenRefreshResponse, or the handler of an exception.
TokenRefreshDone ==
    /\ ionRequests # <<>>
    /\ \E outcome \in RefreshOutcomes :
        LET pContext == Head(ionRequests)
            e == handleTokenRefreshResponse(pContext, outcome = "failed")
        IN  /\ IF outcome = "exception"
               THEN UNCHANGED <<state, content, _tileDataBytes>>
               ELSE /\ state' = e.state
                    /\ content' = e.content
                    /\ _tileDataBytes' = e.bytes
            /\ lastOp' = [op |-> "tokenRefresh", outcome |-> outcome,
                          context |-> pContext, state |-> state,
                          content |-> content]
    /\ ionRequests' = Tail(ionRequests)
    /\ _isRefreshingIonToken' = FALSE
    /\ _loadsInProgress' = _loadsInProgress - 1
    /\ UNCHANGED <<config, provider, rootLoad, sel, _previousFrameNumber, _loadedTiles,
                   _updateResult, _loadQueueHigh, _loadQueueMedium,
                   _loadQueueLow, frame>>

\* ------------------------------------------------- content loader registry

\* Strings are sequences of characters; the characters that matter are the
\* letters of the registered keys in both cases, ';', '?', '.', '{' and ' '.
tolower(ch) ==
    CASE ch = "A" -> "a"
      [] ch = "B" -> "b"
      [] ch = "G" -> "g"
      [] ch = "J" -> "j"
      [] OTHER -> ch

\* std::transform(..., tolower)
lowercase(str) == [i \in 1..Len(str) |-> tolower(str[i])]

isspace(ch) == ch = " "

npos == -1

RECURSIVE findFrom(_, _, _)
\* std::string::find from position i (0-based), npos when absent
findFrom(str, ch, i) ==
    IF i >= Len(str) THEN npos
    ELSE IF str[i + 1] = ch THEN i
    ELSE findFrom(str, ch, i + 1)

find(str, ch) == findFrom(str, ch, 0)

RECURSIVE rfindFrom(_, _, _)
\* std::string::rfind from position i (0-based) downwards
rfindFrom(str, ch, i) ==
    IF i < 0 THEN npos
    ELSE IF str[i + 1] = ch THEN i
    ELSE rfindFrom(str, ch, i - 1)

rfind(str, ch) == rfindFrom(str, ch, Len(str) - 1)

\* std::string::substr(0, count), count possibly npos
substrTo(str, count) ==
    IF count = npos THEN str ELSE SubSeq(str, 1, Min(count, Len(str)))

\* std::string::substr(pos)
substrFrom(str, pos) == SubSeq(str, pos + 1, Len(str))

\* the maps of TileContentFactory without any loader
NoLoaders ==
    [_loadersByMagic |-> <<>>,
     _loadersByContentType |-> <<>>,
     _loadersByFileExtension |-> <<>>]

\* std::unordered_map as a sequence of entries without duplicate keys
mapFind(map, key) ==
    IF \E i \in 1..Len(map) : map[i].key = key
    THEN (CHOOSE i \in 1..Len(map) : map[i].key = key)
    ELSE 0

\* map[key] = pLoader
mapAssign(map, key, pLoader) ==
    IF mapFind(map, key) > 0
    THEN [map EXCEPT ![mapFind(map, key)].pLoader = pLoader]
    ELSE Append(map, [key |-> key, pLoader |-> pLoader])

\* TileContentFactory::registerMagic
registerMagic(l, magic, pLoader) ==
    [l EXCEPT !._loadersByMagic = mapAssign(@, magic, pLoader)]

\* TileContentFactory::registerContentType
registerContentType(l, contentType, pLoader) ==
    [l EXCEPT !._loadersByContentType =
                  mapAssign(@, lowercase(contentType), pLoader)]

\* TileContentFactory::registerFileExtension
registerFileExtension(l, fileExtension, pLoader) ==
    [l EXCEPT !._loadersByFileExtension =
                  mapAssign(@, lowercase(fileExtension), pLoader)]

\* the string "json"
Json == <<"j", "s", "o", "n">>

\* TileContentFactory::getMagic, with value_or("json")
getMagic(data) == IF Len(data) >= 4 THEN SubSeq(data, 1, 4) ELSE Json

RECURSIVE firstNonSpace(_, _)
\* the loop over the leading whitespace of the data: the index (0-based) of
\* the first byte that is not whitespace, or the size of the data
firstNonSpace(data, i) ==
    IF i < Len(data) /\ isspace(data[i + 1])
    THEN firstNonSpace(data, i + 1)
    ELSE i

\* the loader the map holds for the key, or nullptr
loaderOf(map, key) ==
    IF mapFind(map, key) > 0 THEN map[mapFind(map, key)].pLoader
    ELSE "nullptr"

\* createContent, the end: a plausible external tileset is given to the
\* loader registered for "json"
createContentFromJson(l, data) ==
    IF /\ firstNonSpace(data, 0) < Len(data)
       /\ data[firstNonSpace(data, 0) + 1] = "{"
    THEN loaderOf(l._loadersByMagic, Json)
    ELSE "nullptr"

\* createContent, third part: the loader of the extension of the url
createContentFromExtension(l, data, urlWithoutQueries) ==
    IF /\ rfind(urlWithoutQueries, ".") # npos
       /\ rfind(urlWithoutQueries, ".") < Len(urlWithoutQueries)
       /\ mapFind(l._loadersByFileExtension,
                  lowercase(substrFrom(urlWithoutQueries,
                                       rfind(urlWithoutQueries, ".")))) > 0
    THEN loaderOf(l._loadersByFileExtension,
                  lowercase(substrFrom(urlWithoutQueries,
                                       rfind(urlWithoutQueries, "."))))
    ELSE createContentFromJson(l, data)

\* TileContentFactory::createContent: the loader whose load is called with
\* the input, or nullptr for the resolved future without content
createContent(l, data, contentType, url) ==
    IF mapFind(l._loadersByMagic, getMagic(data)) > 0
    THEN loaderOf(l._loadersByMagic, getMagic(data))
    ELSE IF mapFind(l._loadersByContentType,
                    substrTo(contentType, find(contentType, ";"))) > 0
    THEN loaderOf(l._loadersByContentType,
                  substrTo(contentType, find(contentType, ";")))
    ELSE createContentFromExtension(l, data, substrTo(url, find(url, "?")))

\* -------------------------------------------------------- composite tiles

\* Lengths and positions are counted in words of four bytes, so that the
\* 32 bits of a uint32_t byte count are 30 bits of a word count.
Uint32Words == 1073741824

\* sizeof(CmptHeader) == 16
CmptHeaderWords == 4

\* sizeof(InnerHeader) == 12
InnerHeaderWords == 3

\* std::unique_ptr<TileContentLoadResult>(nullptr)
NullContent == [content |-> 0, meshes |-> <<>>]

\* the process does not return a result (abnormal termination)
NoResult == [content |-> -1, meshes |-> <<>>]

\* the TileContentLoadResult createContent gives for inner tile i: nullptr,
\* a result without a model, or a result whose model holds the mesh i
innerContent(i, loaded) ==
    CASE loaded = "nullptr" -> NullContent
      [] loaded = "empty" -> [content |-> i, meshes |-> <<>>]
      [] loaded = "model" -> [content |-> i, meshes |-> <<i>>]

RECURSIVE readInnerTiles(_, _, _, _)
\* the loop of CompositeContent::load over the inner tiles, from tile i
\* (0-based) at position pos; r holds innerTiles, the spans innerData they
\* were created from (slices) and whether a warning was logged.
\* cmpt.inner[i + 1] is what the inner header read at pos holds.
readInnerTiles(cmpt, i, pos, r) ==
    IF i < cmpt.tilesLength /\ pos < cmpt.byteLength
    THEN IF pos + InnerHeaderWords > cmpt.byteLength
         THEN [r EXCEPT !.warned = TRUE]
         ELSE IF (pos + cmpt.inner[i + 1].byteLength) % Uint32Words
                     > cmpt.byteLength
         THEN [r EXCEPT !.warned = TRUE]
         ELSE readInnerTiles(
                  cmpt, i + 1,
                  (pos + cmpt.inner[i + 1].byteLength) % Uint32Words,
                  [r EXCEPT !.innerTiles =
                      Append(@, innerContent(
                                    i + 1, cmpt.inner[i + 1].loaded)),
                            !.slices =
                      Append(@, [pos |-> pos,
                                 byteLength |->
                                     cmpt.inner[i + 1].byteLength])])
    ELSE r

RECURSIVE mergeInnerTilesFrom(_, _, _)
\* the loop of the continuation over innerTilesResult[i..] (1-based);
\* pResult -> model of a null pResult is undefined behaviour
mergeInnerTilesFrom(innerTilesResult, i, pResult) ==
    IF i > Len(innerTilesResult)
    THEN [pResult |-> pResult, undefined |-> FALSE]
    ELSE IF innerTilesResult[i] = NullContent
              \/ innerTilesResult[i].meshes = <<>>
    THEN mergeInnerTilesFrom(innerTilesResult, i + 1, pResult)
    ELSE IF pResult = NullContent
    THEN [pResult |-> pResult, undefined |-> TRUE]
    ELSE mergeInnerTilesFrom(
             innerTilesResult, i + 1,
             [pResult EXCEPT !.meshes = @ \o innerTilesResult[i].meshes])

\* the continuation of CompositeContent::load in the worker thread
mergeInnerTiles(innerTilesResult, tilesLength, warned) ==
    IF Len(innerTilesResult) = 0
    THEN [pResult |-> NullContent, undefined |-> FALSE,
          warned |-> warned \/ tilesLength > 0]
    ELSE IF Len(innerTilesResult) = 1
    THEN [pResult |-> innerTilesResult[1], undefined |-> FALSE,
          warned |-> warned]
    ELSE [pResult |->
              mergeInnerTilesFrom(
                  innerTilesResult, 2, innerTilesResult[1]).pResult,
          undefined |->
              mergeInnerTilesFrom(
                  innerTilesResult, 2, innerTilesResult[1]).undefined,
          warned |-> warned]

\* load after the header was accepted: r is the result of the loop
loadInnerTiles(cmpt, r) ==
    mergeInnerTiles(r.innerTiles, cmpt.tilesLength, r.warned)

\* CompositeContent::load
compositeLoad(cmpt) ==
    IF \/ cmpt.size < CmptHeaderWords
       \/ cmpt.magic # "cmpt"
       \/ cmpt.version # 1
       \/ cmpt.byteLength > cmpt.size
    THEN [pResult |-> NullContent, undefined |-> FALSE, warned |-> TRUE]
    ELSE loadInnerTiles(
             cmpt,
             readInnerTiles(
                 cmpt, 0, CmptHeaderWords,
                 [innerTiles |-> <<>>, slices |-> <<>>, warned |-> FALSE]))

\* the spans innerData that CompositeContent::load hands to
\* TileContentFactory::createContent
innerData(cmpt) ==
    IF \/ cmpt.size < CmptHeaderWords
       \/ cmpt.magic # "cmpt"
       \/ cmpt.version # 1
       \/ cmpt.byteLength > cmpt.size
    THEN <<>>
    ELSE readInnerTiles(
             cmpt, 0, CmptHeaderWords,
             [innerTiles |-> <<>>, slices |-> <<>>, warned |-> FALSE]).slices

\* ------------------------------------------------- implicit octree loader

RECURSIVE pow2(_)
pow2(n) == IF n = 0 THEN 1 ELSE 2 * pow2(n - 1)

\* a << n and a >> n
shiftLeft(a, n) == a * pow2(n)

shiftRight(a, n) == a \div pow2(n)

RECURSIVE morton3D_64_encode(_, _, _)
\* libmorton::morton3D_64_encode: the bits of x, y and z interleaved, the
\* bit of x lowest
morton3D_64_encode(x, y, z) ==
    IF x = 0 /\ y = 0 /\ z = 0 THEN 0
    ELSE (x % 2) + 2 * (y % 2) + 4 * (z % 2)
             + 8 * morton3D_64_encode(x \div 2, y \div 2, z \div 2)

\* SubtreeAvailability: the three bitfields as sets of the bits that are
\* set, a tile or content bit as <<relative level, Morton index>>
isTileAvailable(subtreeAvailability, relativeTileLevel, relativeTileMortonID) ==
    <<relativeTileLevel, relativeTileMortonID>> \in subtreeAvailability.tile

isContentAvailable(subtreeAvailability, relativeTileLevel, relativeTileMortonID) ==
    <<relativeTileLevel, relativeTileMortonID>>
        \in subtreeAvailability.content

isSubtreeAvailable(subtreeAvailability, relativeSubtreeMortonID) ==
    relativeSubtreeMortonID \in subtreeAvailability.subtree

OctreeTileID(level, x, y, z) == [level |-> level, x |-> x, y |-> y, z |-> z]

\* the slots of the children in the order of the loops of populateSubtree:
\* y outermost, then z, then x
ChildSlots ==
    <<[x |-> 0, y |-> 0, z |-> 0], [x |-> 1, y |-> 0, z |-> 0],
      [x |-> 0, y |-> 0, z |-> 1], [x |-> 1, y |-> 0, z |-> 1],
      [x |-> 0, y |-> 1, z |-> 0], [x |-> 1, y |-> 1, z |-> 0],
      [x |-> 0, y |-> 1, z |-> 1], [x |-> 1, y |-> 1, z |-> 1]>>

\* the Morton index of a child as a quadtree would form it
relativeChildMortonIDOfQuadtree(relativeTileMortonID, childIndex) ==
    shiftLeft(relativeTileMortonID, 2) + childIndex

\* relativeTileMortonID << 3 | childIndex
relativeChildMortonIDOf(relativeTileMortonID, childIndex) ==
    shiftLeft(relativeTileMortonID, 3) + childIndex

\* a child tile: its id and whether it was constructed with
\* TileEmptyContent
childTile(octreeID, slot, empty) ==
    [tileID |-> OctreeTileID(
                    octreeID.level + 1,
                    shiftLeft(octreeID.x, 1) + slot.x,
                    shiftLeft(octreeID.y, 1) + slot.y,
                    shiftLeft(octreeID.z, 1) + slot.z),
     emptyContent |-> empty]

\* the body of the loops of populateSubtree for one slot
populateSlot(subtreeAvailability, subtreeLevels, relativeChildLevel, relativeChildMortonID, octreeID, slot, children) ==
    IF relativeChildLevel = subtreeLevels
    THEN IF isSubtreeAvailable(subtreeAvailability, relativeChildMortonID)
         THEN Append(children, childTile(octreeID, slot, FALSE))
         ELSE children
    ELSE IF isTileAvailable(
                subtreeAvailability, relativeChildLevel,
                relativeChildMortonID)
    THEN Append(
             children,
             childTile(
                 octreeID, slot,
                 ~isContentAvailable(
                      subtreeAvailability, relativeChildLevel,
                      relativeChildMortonID)))
    ELSE children

RECURSIVE populateSubtreeFrom(_, _, _, _, _, _, _)
\* the loops of populateSubtree from slot i on
populateSubtreeFrom(i, subtreeAvailability, subtreeLevels, relativeTileLevel, relativeTileMortonID, octreeID, children) ==
    IF i > Len(ChildSlots) THEN children
    ELSE populateSubtreeFrom(
             i + 1, subtreeAvailability, subtreeLevels, relativeTileLevel,
             relativeTileMortonID, octreeID,
             populateSlot(
                 subtreeAvailability, subtreeLevels, relativeTileLevel + 1,
                 relativeChildMortonIDOf(
                     relativeTileMortonID,
                     morton3D_64_encode(
                         ChildSlots[i].x, ChildSlots[i].y, ChildSlots[i].z)),
                 octreeID, ChildSlots[i], children))

\* populateSubtree
populateSubtree(subtreeAvailability, subtreeLevels, relativeTileLevel, relativeTileMortonID, octreeID) ==
    IF relativeTileLevel >= subtreeLevels THEN <<>>
    ELSE populateSubtreeFrom(
             1, subtreeAvailability, subtreeLevels, relativeTileLevel,
             relativeTileMortonID, octreeID, <<>>)

\* createTileChildren once the subtree of the tile was looked up: levelLeft
\* is the level of the tile inside its subtree
createTileChildrenOfSubtree(loader, octreeID, levelLeft, subtreeMortonIdx) ==
    IF mapFind(loader._loadedSubtrees[
                   (octreeID.level \div loader._subtreeLevels) + 1],
               subtreeMortonIdx) > 0
    THEN [children |->
              populateSubtree(
                  loader._loadedSubtrees[
                      (octreeID.level \div loader._subtreeLevels) + 1][
                      mapFind(loader._loadedSubtrees[
                                  (octreeID.level
                                      \div loader._subtreeLevels) + 1],
                              subtreeMortonIdx)].second,
                  loader._subtreeLevels,
                  levelLeft,
                  morton3D_64_encode(
                      octreeID.x - shiftLeft(
                                       shiftRight(octreeID.x, levelLeft),
                                       levelLeft),
                      octreeID.y - shiftLeft(
                                       shiftRight(octreeID.y, levelLeft),
                                       levelLeft),
                      octreeID.z - shiftLeft(
                                       shiftRight(octreeID.z, levelLeft),
                                       levelLeft)),
                  octreeID),
          state |-> "Success"]
    ELSE [children |-> <<>>, state |-> "RetryLater"]

\* ImplicitOctreeLoader::createTileChildren
createTileChildren(loader, octreeID) ==
    IF octreeID.level \div loader._subtreeLevels
           >= Len(loader._loadedSubtrees)
    THEN [children |-> <<>>, state |-> "Failed"]
    ELSE createTileChildrenOfSubtree(
             loader, octreeID,
             octreeID.level % loader._subtreeLevels,
             morton3D_64_encode(
                 shiftRight(octreeID.x,
                            octreeID.level % loader._subtreeLevels),
                 shiftRight(octreeID.y,
                            octreeID.level % loader._subtreeLevels),
                 shiftRight(octreeID.z,
                            octreeID.level % loader._subtreeLevels)))

\* ------------------------------------ implicit octree loader: tile content

\* a tileset without implicit octree loader
NoOctreeLoader ==
    [_subtreeLevels |-> 1, _loadedSubtrees |-> <<>>, loads |-> <<>>]

\* ImplicitOctreeLoader::resolveUrl: the template with the level, x, y and z
\* of the tile substituted
resolveUrl(urlTemplate, octreeID) ==
    [urlTemplate |-> urlTemplate, level |-> octreeID.level,
     x |-> octreeID.x, y |-> octreeID.y, z |-> octreeID.z]

\* outUrl of getRequestWork left as it was
NoUrl == [urlTemplate |-> "", level |-> 0, x |-> 0, y |-> 0, z |-> 0]

\* the root of the subtree an octree tile belongs to
subtreeIDOf(subtreeLevels, octreeID) ==
    OctreeTileID(
        subtreeLevels * (octreeID.level \div subtreeLevels),
        shiftRight(octreeID.x, octreeID.level % subtreeLevels),
        shiftRight(octreeID.y, octreeID.level % subtreeLevels),
        shiftRight(octreeID.z, octreeID.level % subtreeLevels))

\* _loadedSubtrees[subtreeLevelIdx].find(subtreeMortonIdx), 0 for end()
findSubtree(loader, subtreeID) ==
    mapFind(loader._loadedSubtrees[
                (subtreeID.level \div loader._subtreeLevels) + 1],
            morton3D_64_encode(subtreeID.x, subtreeID.y, subtreeID.z))

isTileContentAvailable(subtreeID, octreeID, subtreeAvailability) ==
    isContentAvailable(
        subtreeAvailability,
        octreeID.level - subtreeID.level,
        morton3D_64_encode(
            octreeID.x
                - shiftLeft(subtreeID.x, octreeID.level - subtreeID.level),
            octreeID.y
                - shiftLeft(subtreeID.y, octreeID.level - subtreeID.level),
            octreeID.z
                - shiftLeft(subtreeID.z, octreeID.level - subtreeID.level)))

\* ImplicitOctreeLoader::addSubtreeAvailability
addSubtreeAvailability(loader, subtreeID, subtreeAvailability) ==
    LET levelIndex == subtreeID.level \div loader._subtreeLevels
        subtreeMortonID ==
            morton3D_64_encode(subtreeID.x, subtreeID.y, subtreeID.z)
    IN  IF levelIndex >= Len(loader._loadedSubtrees) THEN loader
        ELSE IF findSubtree(loader, subtreeID) > 0
        THEN [loader EXCEPT
                 !._loadedSubtrees[levelIndex + 1][
                     findSubtree(loader, subtreeID)].second =
                         subtreeAvailability]
        ELSE [loader EXCEPT
                 !._loadedSubtrees[levelIndex + 1] =
                     Append(@, [key |-> subtreeMortonID,
                                second |-> subtreeAvailability])]

\* SubtreeAvailability::loadSubtree: the availability the bytes hold, if they
\* parse as a subtree
loadSubtreeAvailability(bytes) ==
    IF bytes.kind = "subtree" THEN <<bytes.availability>> ELSE <<>>

\* requestTileContent of the loader: the converter found by magic or by file
\* extension turns the bytes into a model
requestTileContent(bytes) ==
    IF bytes.kind = "content" /\ bytes.converter
    THEN IF bytes.errors \/ ~bytes.model
         THEN [state |-> "Failed", content |-> "none"]
         ELSE [state |-> "Success", content |-> "model"]
    ELSE [state |-> "Failed", content |-> "none"]

\* responseDataByUrl.find(url), 0 for end()
findResponse(responseDataByUrl, url) ==
    IF \E i \in 1..Len(responseDataByUrl) : responseDataByUrl[i].key = url
    THEN CHOOSE i \in 1..Len(responseDataByUrl) :
             responseDataByUrl[i].key = url
    ELSE 0

\* getRequestWork that asks for the content of a tile whose subtree is not
\* loaded
getRequestWorkOfContentOnly(loader, pOctreeID) ==
    IF pOctreeID = <<>> THEN [result |-> FALSE, outUrl |-> NoUrl]
    ELSE IF pOctreeID[1].level \div loader._subtreeLevels
                >= Len(loader._loadedSubtrees)
    THEN [result |-> FALSE, outUrl |-> NoUrl]
    ELSE [result |-> TRUE, outUrl |-> resolveUrl("content", pOctreeID[1])]

\* ImplicitOctreeLoader::getRequestWork; pOctreeID is the octree id of the
\* tile, empty when the tile has another kind of id
getRequestWork(loader, pOctreeID) ==
    IF pOctreeID = <<>> THEN [result |-> FALSE, outUrl |-> NoUrl]
    ELSE IF pOctreeID[1].level \div loader._subtreeLevels
                >= Len(loader._loadedSubtrees)
    THEN [result |-> FALSE, outUrl |-> NoUrl]
    ELSE IF findSubtree(
                loader, subtreeIDOf(loader._subtreeLevels, pOctreeID[1])) = 0
    THEN [result |-> TRUE,
          outUrl |-> resolveUrl(
                         "subtree",
                         subtreeIDOf(loader._subtreeLevels, pOctreeID[1]))]
    ELSE IF ~isTileContentAvailable(
                 subtreeIDOf(loader._subtreeLevels, pOctreeID[1]),
                 pOctreeID[1],
                 loader._loadedSubtrees[
                     (pOctreeID[1].level \div loader._subtreeLevels) + 1][
                     findSubtree(
                         loader,
                         subtreeIDOf(loader._subtreeLevels,
                                     pOctreeID[1]))].second)
    THEN [result |-> FALSE, outUrl |-> NoUrl]
    ELSE [result |-> TRUE, outUrl |-> resolveUrl("content", pOctreeID[1])]

\* the result of loadTileContent: the loader, the url looked up in
\* responseDataByUrl (NoUrl when none is), and the TileLoadResult the future
\* resolves to at once ("Pending" when a subtree load was started,
\* "AssertFailed" when the url is not in responseDataByUrl)
loadResult(loader, lookedUp, resultState, resultContent) ==
    [loader |-> loader, lookedUp |-> lookedUp,
     state |-> resultState, content |-> resultContent]

\* loadTileContent of a tile whose subtree is registered at index subtreeIt
loadTileContentOfSubtree(loader, octreeID, subtreeID, subtreeIt, responseDataByUrl) ==
    IF ~isTileContentAvailable(
            subtreeID, octreeID,
            loader._loadedSubtrees[
                (octreeID.level \div loader._subtreeLevels) + 1][
                subtreeIt].second)
    THEN loadResult(loader, NoUrl, "Success", "empty")
    ELSE IF findResponse(responseDataByUrl,
                         resolveUrl("content", octreeID)) = 0
    THEN loadResult(loader, resolveUrl("content", octreeID),
                    "AssertFailed", "none")
    ELSE loadResult(
             loader, resolveUrl("content", octreeID),
             requestTileContent(
                 responseDataByUrl[
                     findResponse(responseDataByUrl,
                                  resolveUrl("content", octreeID))].bytes
             ).state,
             requestTileContent(
                 responseDataByUrl[
                     findResponse(responseDataByUrl,
                                  resolveUrl("content", octreeID))].bytes
             ).content)

\* loadTileContent of a tile whose subtree is not registered
loadTileContentOfMissingSubtree(loader, subtreeID, responseDataByUrl) ==
    IF findResponse(responseDataByUrl, resolveUrl("subtree", subtreeID)) = 0
    THEN loadResult(loader, resolveUrl("subtree", subtreeID),
                    "AssertFailed", "none")
    ELSE loadResult(
             [loader EXCEPT
                 !.loads = Append(@,
                     [subtreeID |-> subtreeID,
                      bytes |->
                          responseDataByUrl[
                              findResponse(
                                  responseDataByUrl,
                                  resolveUrl("subtree", subtreeID))].bytes])],
             resolveUrl("subtree", subtreeID), "Pending", "none")

\* loadTileContent that loads the subtree again although it is registered
loadTileContentAlwaysLoadingSubtree(loader, pOctreeID, responseDataByUrl) ==
    IF pOctreeID = <<>> THEN loadResult(loader, NoUrl, "Failed", "none")
    ELSE IF pOctreeID[1].level \div loader._subtreeLevels
                >= Len(loader._loadedSubtrees)
    THEN loadResult(loader, NoUrl, "Failed", "none")
    ELSE IF findSubtree(
                loader, subtreeIDOf(loader._subtreeLevels, pOctreeID[1])) = 0
    THEN loadTileContentOfMissingSubtree(
             loader, subtreeIDOf(loader._subtreeLevels, pOctreeID[1]),
             responseDataByUrl)
    ELSE loadResult(
             [loader EXCEPT
                 !.loads = Append(@,
                     [subtreeID |->
                          subtreeIDOf(loader._subtreeLevels, pOctreeID[1]),
                      bytes |-> [kind |-> "garbage"]])],
             resolveUrl("subtree",
                        subtreeIDOf(loader._subtreeLevels, pOctreeID[1])),
             "Pending", "none")

\* ImplicitOctreeLoader::loadTileContent up to the future it returns
loadTileContent(loader, pOctreeID, responseDataByUrl) ==
    IF pOctreeID = <<>> THEN loadResult(loader, NoUrl, "Failed", "none")
    ELSE IF pOctreeID[1].level \div loader._subtreeLevels
                >= Len(loader._loadedSubtrees)
    THEN loadResult(loader, NoUrl, "Failed", "none")
    ELSE IF findSubtree(
                loader, subtreeIDOf(loader._subtreeLevels, pOctreeID[1])) = 0
    THEN loadTileContentOfMissingSubtree(
             loader, subtreeIDOf(loader._subtreeLevels, pOctreeID[1]),
             responseDataByUrl)
    ELSE loadTileContentOfSubtree(
             loader, pOctreeID[1],
             subtreeIDOf(loader._subtreeLevels, pOctreeID[1]),
             findSubtree(
                 loader, subtreeIDOf(loader._subtreeLevels, pOctreeID[1])),
             responseDataByUrl)

\* the continuation of loadTileContent in the main thread for the i-th
\* subtree load in flight
subtreeLoaded(loader, i) ==
    LET load == loader.loads[i]
        rest == [loader EXCEPT
                    !.loads = SubSeq(@, 1, i - 1)
                                  \o SubSeq(@, i + 1, Len(@))]
        subtreeAvailability == loadSubtreeAvailability(load.bytes)
    IN  IF subtreeAvailability # <<>>
        THEN addSubtreeAvailability(
                 rest, load.subtreeID, subtreeAvailability[1])
        ELSE rest

\* --------------------------------- availability subtree loads of a tileset

\* the implicit tiles whose subtrees the traversal may ask for: tile 1 has a
\* quadtree id, tile 2 an octree id, and tile 3 a url as its id (it gets no
\* availability node)
MaxSubtreeTiles == 3

SubtreeTiles == 1..MaxSubtreeTiles

subtreeTileID(t) ==
    IF t = 1 THEN "QuadtreeTileID"
    ELSE IF t = 2 THEN "OctreeTileID"
    ELSE "string"

\* no subtree load was ever queued
NoSubtreeLoads ==
    [_subtreeLoadsInProgress |-> 0,
     _subtreeLoadQueue |-> <<>>,
     nodes |-> <<>>,
     requests |-> <<>>,
     crashed |-> FALSE]

\* the availability node of a tile, 0 for nullptr
nodeOf(s, t) ==
    IF \E i \in 1..Len(s.nodes) : s.nodes[i].tile = t
    THEN CHOOSE i \in 1..Len(s.nodes) : s.nodes[i].tile = t
    ELSE 0

\* ImplicitTraversalInfo of a visited tile, as far as the subtree loads read
\* it
ImplicitTraversalInfo(s, t, subtreeAvailable, shouldQueueSubtreeLoad) ==
    [pCurrentNode |-> nodeOf(s, t),
     availability |-> subtreeAvailable,
     shouldQueueSubtreeLoad |-> shouldQueueSubtreeLoad,
     usingImplicitQuadtreeTiling |-> t = 1,
     usingImplicitOctreeTiling |-> t # 1]

\* Tileset::addSubtreeToLoadQueue
addSubtreeToLoadQueue(s, tile, implicitInfo, loadPriority) ==
    IF /\ implicitInfo.pCurrentNode = 0
       /\ implicitInfo.availability
       /\ implicitInfo.shouldQueueSubtreeLoad
       /\ (implicitInfo.usingImplicitQuadtreeTiling
               \/ implicitInfo.usingImplicitOctreeTiling)
    THEN [s EXCEPT !._subtreeLoadQueue =
                       Append(@, [pTile |-> tile,
                                  implicitInfo |-> implicitInfo,
                                  priority |-> loadPriority])]
    ELSE s

\* QuadtreeAvailability::addNode / OctreeAvailability::addNode
addNode(s, tile) ==
    [s EXCEPT !.nodes = Append(@, [tile |-> tile, subtree |-> "none"])]

\* Tileset::requestAvailabilitySubtree; the continuations keep the record
\* and pNewNode
requestAvailabilitySubtree(s, loadRecord, pNewNode) ==
    [s EXCEPT !._subtreeLoadsInProgress = @ + 1,
              !.requests = Append(@, [loadRecord |-> loadRecord,
                                      pNewNode |-> pNewNode])]

\* Tileset::loadSubtree up to the request
loadSubtree(s, loadRecord) ==
    IF subtreeTileID(loadRecord.pTile) \in {"QuadtreeTileID", "OctreeTileID"}
    THEN requestAvailabilitySubtree(
             addNode(s, loadRecord.pTile), loadRecord, Len(s.nodes) + 1)
    ELSE requestAvailabilitySubtree(s, loadRecord, 0)

RECURSIVE processSubtreeQueueFrom(_, _, _)
\* the loop of processSubtreeQueue from the i-th record on
processSubtreeQueueFrom(i, s, limit) ==
    IF i > Len(s._subtreeLoadQueue) THEN s
    ELSE IF loadSubtree(s, s._subtreeLoadQueue[i])._subtreeLoadsInProgress
                >= limit
    THEN loadSubtree(s, s._subtreeLoadQueue[i])
    ELSE processSubtreeQueueFrom(
             i + 1, loadSubtree(s, s._subtreeLoadQueue[i]), limit)

\* Tileset::processSubtreeQueue
processSubtreeQueue(s, limit) ==
    IF s._subtreeLoadsInProgress >= limit THEN s
    ELSE processSubtreeQueueFrom(
             1, [s EXCEPT !._subtreeLoadQueue = sortQueue(@)], limit)

RECURSIVE queueSubtreesFrom(_, _, _)
\* the traversal of a frame: _renderLeaf calls addSubtreeToLoadQueue for
\* the visited tiles, visits[i] holding the tile and what the traversal
\* found for it
queueSubtreesFrom(i, visits, s) ==
    IF i > Len(visits) THEN s
    ELSE queueSubtreesFrom(
             i + 1, visits,
             addSubtreeToLoadQueue(
                 s, visits[i].tile,
                 ImplicitTraversalInfo(
                     s, visits[i].tile, visits[i].subtreeAvailable,
                     visits[i].shouldQueueSubtreeLoad),
                 visits[i].priority))

\* the request of a subtree without its record
withoutRequest(s, i) ==
    [s EXCEPT !.requests = SubSeq(@, 1, i - 1) \o SubSeq(@, i + 1, Len(@))]

\* the continuation of loadSubtree in the main thread for a subtree that
\* loaded: pSubtree is moved into the node
subtreeLoadDone(s, i) ==
    LET request == s.requests[i]
        done == [withoutRequest(s, i) EXCEPT !._subtreeLoadsInProgress = @ - 1]
    IN  IF request.pNewNode > 0
            /\ (request.loadRecord.implicitInfo.usingImplicitQuadtreeTiling
                  \/ request.loadRecord.implicitInfo.usingImplicitOctreeTiling)
        THEN [done EXCEPT !.nodes[request.pNewNode].subtree = "loaded"]
        ELSE done

\* the same continuation for a null pSubtree (no response, a status outside
\* 200..299 other than 0, or a subtree that did not parse): *pSubtree.release()
\* dereferences a null pointer when the node exists, which is undefined;
\* outcome is what the build makes of it, the bytes at the null address
\* moved into the node ("garbage") or the end of the process ("crash")
subtreeLoadFailed(s, i, outcome) ==
    LET request == s.requests[i]
        done == [withoutRequest(s, i) EXCEPT !._subtreeLoadsInProgress = @ - 1]
    IN  IF request.pNewNode > 0
            /\ (request.loadRecord.implicitInfo.usingImplicitQuadtreeTiling
                  \/ request.loadRecord.implicitInfo.usingImplicitOctreeTiling)
        THEN IF outcome = "crash"
             THEN [done EXCEPT !.crashed = TRUE]
             ELSE [done EXCEPT !.nodes[request.pNewNode].subtree = "garbage"]
        ELSE done

\* the catchInMainThread handler of loadSubtree for an exception of the
\* request or of the worker thread: the main-thread continuation is skipped
subtreeLoadThrew(s, i) ==
    [withoutRequest(s, i) EXCEPT !._subtreeLoadsInProgress = @ - 1]

\* ------------------------------------------- raster overlay tile provider

\* The tiles of a provider: tile 0 is the placeholder tile of a placeholder
\* provider, tiles 1..MaxOverlayTiles are the tiles getTile creates.
MaxOverlayTiles == 3

\* the references the users of a provider hold to one tile, at most
MaxHeld == 2

OverlayTiles == 0..MaxOverlayTiles

\* a RasterOverlayTile that does not exist (never created, or deleted)
NoOverlayTile ==
    [exists |-> FALSE, state |-> "Unloaded", references |-> 0, held |-> 0,
     isThrottledLoad |-> FALSE, image |-> 0]

\* RasterOverlayTile(overlay): the placeholder tile
PlaceholderTile ==
    [exists |-> TRUE, state |-> "Placeholder", references |-> 0, held |-> 0,
     isThrottledLoad |-> FALSE, image |-> 0]

\* RasterOverlayTile(overlay, targetScreenPixels, rectangle)
NewOverlayTile ==
    [exists |-> TRUE, state |-> "Unloaded", references |-> 0, held |-> 0,
     isThrottledLoad |-> FALSE, image |-> 0]

\* RasterOverlayTile::addReference; held counts the references of users
addReference(p, t, byUser) ==
    [p EXCEPT !.tiles[t].references = @ + 1,
              !.tiles[t].held = @ + (IF byUser THEN 1 ELSE 0)]

\* the tileset has no raster overlay
NoProvider ==
    [_pPlaceholder |-> FALSE,
     maximumSimultaneousTileLoads |-> 0,
     _tileDataBytes |-> 0,
     _totalTilesCurrentlyLoading |-> 0,
     _throttledTilesCurrentlyLoading |-> 0,
     tiles |-> [t \in OverlayTiles |-> NoOverlayTile]]

\* RasterOverlayTileProvider(owner, pAsyncSystem, pAssetAccessor): the
\* provider that stands in while the real one is created
PlaceholderProvider(limit) ==
    addReference(
        [NoProvider EXCEPT !._pPlaceholder = TRUE,
                           !.maximumSimultaneousTileLoads = limit,
                           !.tiles[0] = PlaceholderTile],
        0, FALSE)

\* RasterOverlayTileProvider(owner, ..., projection, coverageRectangle)
RealProvider(limit) ==
    [NoProvider EXCEPT !.maximumSimultaneousTileLoads = limit]

\* getTile that creates a tile although the provider is a placeholder
getTileWithoutPlaceholder(p, overlaps, fresh) ==
    IF ~overlaps THEN [p |-> p, pTile |-> -1]
    ELSE [p |-> addReference(
                    [p EXCEPT !.tiles[fresh] = NewOverlayTile], fresh, TRUE),
          pTile |-> fresh]

\* RasterOverlayTileProvider::getTile; overlaps is whether the rectangle
\* overlaps the coverage rectangle, fresh the tile that new creates.  The
\* IntrusivePointer returned holds a reference; pTile -1 is nullptr.
getTile(p, overlaps, fresh) ==
    IF p._pPlaceholder
    THEN [p |-> addReference(p, 0, TRUE), pTile |-> 0]
    ELSE IF ~overlaps THEN [p |-> p, pTile |-> -1]
    ELSE [p |-> addReference(
                    [p EXCEPT !.tiles[fresh] = NewOverlayTile], fresh, TRUE),
          pTile |-> fresh]

\* RasterOverlayTileProvider::removeTile
removeTile(p, t) ==
    [p EXCEPT !._tileDataBytes = @ - p.tiles[t].image,
              !.tiles[t] = NoOverlayTile]

\* RasterOverlayTile::releaseReference: the last reference removes the tile
releaseReference(p, t, byUser) ==
    IF p.tiles[t].references = 1
    THEN removeTile(p, t)
    ELSE [p EXCEPT !.tiles[t].references = @ - 1,
                   !.tiles[t].held = @ - (IF byUser THEN 1 ELSE 0)]

\* RasterOverlayTileProvider::beginTileLoad
beginTileLoad(p, t, isThrottledLoad) ==
    [addReference(p, t, FALSE) EXCEPT
        !._totalTilesCurrentlyLoading = @ + 1,
        !._throttledTilesCurrentlyLoading =
            @ + (IF isThrottledLoad THEN 1 ELSE 0)]

\* finalizeTileLoad that counts every load as not throttled
finalizeTileLoadTotalOnly(p, t, isThrottledLoad) ==
    releaseReference(
        [p EXCEPT !._totalTilesCurrentlyLoading = @ - 1], t, FALSE)

\* RasterOverlayTileProvider::finalizeTileLoad
finalizeTileLoad(p, t, isThrottledLoad) ==
    releaseReference(
        [p EXCEPT !._totalTilesCurrentlyLoading = @ - 1,
                  !._throttledTilesCurrentlyLoading =
                      @ - (IF isThrottledLoad THEN 1 ELSE 0)],
        t, FALSE)

\* RasterOverlayTileProvider::doLoad up to the request of the image; the
\* continuation keeps isThrottledLoad
doLoad(p, t, isThrottledLoad) ==
    IF p.tiles[t].state # "Unloaded" THEN p
    ELSE beginTileLoad(
             [p EXCEPT !.tiles[t].state = "Loading",
                       !.tiles[t].isThrottledLoad = isThrottledLoad],
             t, isThrottledLoad)

\* the continuations of doLoad in the main thread: loadState is the state of
\* the LoadResult ("Loaded" with an image of one byte, or "Failed")
doLoadDone(p, t, loadState) ==
    finalizeTileLoad(
        [p EXCEPT !.tiles[t].state = loadState,
                  !.tiles[t].image = IF loadState = "Loaded" THEN 1 ELSE 0,
                  !._tileDataBytes =
                      @ + (IF loadState = "Loaded" THEN 1 ELSE 0)],
        t, p.tiles[t].isThrottledLoad)

\* RasterOverlayTileProvider::loadTile
loadTile(p, t) ==
    IF p._pPlaceholder THEN p ELSE doLoad(p, t, FALSE)

\* loadTileThrottled that still loads when the limit is reached
loadTileThrottledPastLimit(p, t) ==
    IF p.tiles[t].state # "Unloaded" THEN [p |-> p, result |-> TRUE]
    ELSE IF p._throttledTilesCurrentlyLoading
                > p.maximumSimultaneousTileLoads
    THEN [p |-> p, result |-> FALSE]
    ELSE [p |-> doLoad(p, t, TRUE), result |-> TRUE]

\* RasterOverlayTileProvider::loadTileThrottled
loadTileThrottled(p, t) ==
    IF p.tiles[t].state # "Unloaded" THEN [p |-> p, result |-> TRUE]
    ELSE IF p._throttledTilesCurrentlyLoading
                >= p.maximumSimultaneousTileLoads
    THEN [p |-> p, result |-> FALSE]
    ELSE [p |-> doLoad(p, t, TRUE), result |-> TRUE]

\* ------------------------------------------------------------ specification

Configurations ==
    [forbidHoles : BOOLEAN,
     preloadAncestors : {FALSE},
     preloadSiblings : {FALSE},
     loadingDescendantLimit : {2},
     maximumSimultaneousTileLoads : {2},
     maximumCachedBytes : {3},
     overlayDataBytes : {0},
     ionAssetID : {TRUE},
     emptyTiles : {{}},
     unconditionallyRefine : {{}}]

Init ==
    /\ options \in Configurations
    /\ refine \in {r \in [Tiles -> {"Replace", "Add"}] :
                      \A t \in Tiles : isLeaf(t) => r[t] = "Replace"}
    /\ rootLoad = IF options.ionAssetID THEN "endpoint" ELSE "json"
    /\ state = [t \in Tiles |-> "Unloaded"]
    /\ content = [t \in Tiles |-> "null"]
    /\ sel = [t \in Tiles |-> NeverSelected]
    /\ _previousFrameNumber = 0
    /\ _loadsInProgress = 1
    /\ _isRefreshingIonToken = FALSE
    /\ ionRequests = <<>>
    /\ _loadedTiles = <<>>
    /\ _tileDataBytes = 0
    /\ _updateResult = EmptyResult
    /\ _loadQueueHigh = <<>>
    /\ _loadQueueMedium = <<>>
    /\ _loadQueueLow = <<>>
    /\ frame = NoFrame
    /\ provider = NoProvider
    /\ loaders = NoLoaders
    /\ octree = NoOctreeLoader
    /\ subtrees = NoSubtreeLoads
    /\ lastOp = [op |-> "construct"]

Next ==
    \/ UpdateView
    \/ HandleAssetResponse
    \/ LoadTilesetJsonDone
    \/ TileLoadCompleted
    \/ TokenRefreshDone

Spec == Init /\ [][Next]_vars

\* A tileset constructed from the url of a tileset.json (no Cesium ion
\* asset, so no failedTileCallback) whose tiles all refine by replacement,
\* with the preload options and with the root as a tile without content that
\* refines unconditionally (the dummy root of an implicit tileset).
UrlConfigurations ==
    {o \in [forbidHoles : BOOLEAN,
            preloadAncestors : BOOLEAN,
            preloadSiblings : BOOLEAN,
            loadingDescendantLimit : {1},
            maximumSimultaneousTileLoads : {2},
            maximumCachedBytes : {3},
            overlayDataBytes : {0},
            ionAssetID : {FALSE},
            emptyTiles : {{}, {1}},
            unconditionallyRefine : {{}, {1}}] :
        o.emptyTiles = o.unconditionallyRefine}

InitUrl ==
    /\ options \in UrlConfigurations
    /\ refine = [t \in Tiles |-> "Replace"]
    /\ rootLoad = "json"
    /\ state = [t \in Tiles |-> "Unloaded"]
    /\ content = [t \in Tiles |-> "null"]
    /\ sel = [t \in Tiles |-> NeverSelected]
    /\ _previousFrameNumber = 0
    /\ _loadsInProgress = 1
    /\ _isRefreshingIonToken = FALSE
    /\ ionRequests = <<>>
    /\ _loadedTiles = <<>>
    /\ _tileDataBytes = 0
    /\ _updateResult = EmptyResult
    /\ _loadQueueHigh = <<>>
    /\ _loadQueueMedium = <<>>
    /\ _loadQueueLow = <<>>
    /\ frame = NoFrame
    /\ provider = NoProvider
    /\ loaders = NoLoaders
    /\ octree = NoOctreeLoader
    /\ subtrees = NoSubtreeLoads
    /\ lastOp = [op |-> "construct"]

NextUrl ==
    \/ UpdateView
    \/ LoadTilesetJsonDone
    \/ TileLoadCompleted

SpecUrl == InitUrl /\ [][NextUrl]_vars

\* A tileset constructed from a url whose tile 2 refines by addition, with
\* three simultaneous loads, so that the tile and its two children start to
\* load in the first frame.
AddConfigurations ==
    [forbidHoles : {FALSE},
     preloadAncestors : {FALSE},
     preloadSiblings : {FALSE},
     loadingDescendantLimit : {2},
     maximumSimultaneousTileLoads : {3},
     maximumCachedBytes : {3},
     overlayDataBytes : {0},
     ionAssetID : {FALSE},
     emptyTiles : {{}},
     unconditionallyRefine : {{}}]

InitAdd ==
    /\ options \in AddConfigurations
    /\ refine = [t \in Tiles |-> IF t = 2 THEN "Add" ELSE "Replace"]
    /\ rootLoad = "json"
    /\ state = [t \in Tiles |-> "Unloaded"]
    /\ content = [t \in Tiles |-> "null"]
    /\ sel = [t \in Tiles |-> NeverSelected]
    /\ _previousFrameNumber = 0
    /\ _loadsInProgress = 1
    /\ _isRefreshingIonToken = FALSE
    /\ ionRequests = <<>>
    /\ _loadedTiles = <<>>
    /\ _tileDataBytes = 0
    /\ _updateResult = EmptyResult
    /\ _loadQueueHigh = <<>>
    /\ _loadQueueMedium = <<>>
    /\ _loadQueueLow = <<>>
    /\ frame = NoFrame
    /\ provider = NoProvider
    /\ loaders = NoLoaders
    /\ octree = NoOctreeLoader
    /\ subtrees = NoSubtreeLoads
    /\ lastOp = [op |-> "construct"]

NextAdd ==
    \/ UpdateView
    \/ LoadTilesetJsonDone
    \/ TileLoadCompleted

SpecAdd == InitAdd /\ [][NextAdd]_vars

\* The refinement test of _visitTile and _meetsSse as functions of their
\* inputs: screen-space errors and thresholds are drawn from 0..MaxSse, for
\* up to MaxFrustums frustums.
MaxSse == 2

MaxFrustums == 2

SseLists ==
    UNION {[1..n -> 0..MaxSse] : n \in 0..MaxFrustums}

SseConfigurations ==
    [forbidHoles : {TRUE},
     preloadAncestors : {FALSE},
     preloadSiblings : {FALSE},
     loadingDescendantLimit : {2},
     maximumSimultaneousTileLoads : {2},
     maximumCachedBytes : {3},
     overlayDataBytes : {0},
     ionAssetID : {FALSE},
     emptyTiles : {{}},
     unconditionallyRefine : {{}},
     maximumScreenSpaceError : 0..MaxSse,
     culledScreenSpaceError : 0..MaxSse,
     enforceCulledScreenSpaceError : BOOLEAN]

InitSse ==
    /\ options \in SseConfigurations
    /\ refine = [t \in Tiles |-> "Replace"]
    /\ rootLoad = "json"
    /\ state = [t \in Tiles |-> "Unloaded"]
    /\ content = [t \in Tiles |-> "null"]
    /\ sel = [t \in Tiles |-> NeverSelected]
    /\ _previousFrameNumber = 0
    /\ _loadsInProgress = 1
    /\ _isRefreshingIonToken = FALSE
    /\ ionRequests = <<>>
    /\ _loadedTiles = <<>>
    /\ _tileDataBytes = 0
    /\ _updateResult = EmptyResult
    /\ _loadQueueHigh = <<>>
    /\ _loadQueueMedium = <<>>
    /\ _loadQueueLow = <<>>
    /\ frame = NoFrame
    /\ provider = NoProvider
    /\ loaders = NoLoaders
    /\ octree = NoOctreeLoader
    /\ subtrees = NoSubtreeLoads
    /\ lastOp = [op |-> "construct"]

\* _visitTile of a tile that is not a leaf, up to the choice between
\* rendering (or holding) the tile and refining it.  The choice depends on
\* the inputs of the visit alone, so one visit is explored for each
\* configuration and each choice of inputs.
VisitTileDecision ==
    /\ lastOp.op = "construct"
    /\ \E sses \in SseLists : \E distances \in 0..MaxFrustums :
       \E culled \in BOOLEAN : \E unconditionallyRefine \in BOOLEAN :
       \E ancestorMeetsSse \in BOOLEAN : \E waitingForChildren \in BOOLEAN :
           lastOp' =
               [op |-> "visitTile",
                sses |-> sses,
                distances |-> distances,
                culled |-> culled,
                unconditionallyRefine |-> unconditionallyRefine,
                ancestorMeetsSse |-> ancestorMeetsSse,
                waitingForChildren |-> waitingForChildren,
                meetsSse |-> meetsSseOf(sses, distances, culled),
                refine |-> ~rendersOrHolds(
                               unconditionallyRefine,
                               meetsSseOf(sses, distances, culled),
                               ancestorMeetsSse, waitingForChildren)]
    /\ UNCHANGED <<config, provider, rootLoad, state, content, sel,
                   _previousFrameNumber, _loadsInProgress,
                   _isRefreshingIonToken, ionRequests, _loadedTiles,
                   _tileDataBytes, _updateResult, _loadQueueHigh,
                   _loadQueueMedium, _loadQueueLow, frame>>

NextSse == VisitTileDecision

SpecSse == InitSse /\ [][NextSse]_vars

\* ------------------------------------------------------ results of a frame

\* A raster overlay tile provider on its own: the provider is a placeholder
\* or a real one, with a limit of throttled loads of 1..MaxOverlayTiles;
\* its users get tiles, load them throttled or not, and release them, and
\* the loads complete in any order.
OverlayProviders ==
    {PlaceholderProvider(limit) : limit \in 1..MaxOverlayTiles}
        \cup {RealProvider(limit) : limit \in 1..MaxOverlayTiles}

InitOverlay ==
    /\ options \in AddConfigurations
    /\ refine = [t \in Tiles |-> "Replace"]
    /\ rootLoad = "json"
    /\ state = [t \in Tiles |-> "Unloaded"]
    /\ content = [t \in Tiles |-> "null"]
    /\ sel = [t \in Tiles |-> NeverSelected]
    /\ _previousFrameNumber = 0
    /\ _loadsInProgress = 1
    /\ _isRefreshingIonToken = FALSE
    /\ ionRequests = <<>>
    /\ _loadedTiles = <<>>
    /\ _tileDataBytes = 0
    /\ _updateResult = EmptyResult
    /\ _loadQueueHigh = <<>>
    /\ _loadQueueMedium = <<>>
    /\ _loadQueueLow = <<>>
    /\ frame = NoFrame
    /\ provider \in OverlayProviders
    /\ loaders = NoLoaders
    /\ octree = NoOctreeLoader
    /\ subtrees = NoSubtreeLoads
    /\ lastOp = [op |-> "construct"]

\* the tiles a user of the provider holds a reference to
HeldTiles == {t \in OverlayTiles : provider.tiles[t].held > 0}

\* a user calls getTile and keeps the pointer
GetTile ==
    /\ \E overlaps \in BOOLEAN : \E fresh \in OverlayTiles :
           /\ IF provider._pPlaceholder
              THEN fresh = 0 /\ provider.tiles[0].held < MaxHeld
              ELSE fresh > 0 /\ ~provider.tiles[fresh].exists
           /\ provider' = getTile(provider, overlaps, fresh).p
           /\ lastOp' = [op |-> "getTile",
                         pTile |-> getTile(provider, overlaps, fresh).pTile]
    /\ UNCHANGED <<config, tileset>>

\* a user drops a pointer to a tile
ReleaseTile ==
    /\ \E t \in HeldTiles :
           /\ provider' = releaseReference(provider, t, TRUE)
           /\ lastOp' = [op |-> "releaseReference", pTile |-> t]
    /\ UNCHANGED <<config, tileset>>

\* a user calls loadTile with a tile it holds
LoadTile ==
    /\ \E t \in HeldTiles :
           /\ provider' = loadTile(provider, t)
           /\ lastOp' = [op |-> "loadTile", pTile |-> t]
    /\ UNCHANGED <<config, tileset>>

\* a user calls loadTileThrottled with a tile it holds
LoadTileThrottled ==
    /\ \E t \in HeldTiles :
           /\ provider' = loadTileThrottled(provider, t).p
           /\ lastOp' = [op |-> "loadTileThrottled", pTile |-> t,
                         result |-> loadTileThrottled(provider, t).result]
    /\ UNCHANGED <<config, tileset>>

\* the load of a tile completes: the continuations of doLoad
OverlayLoadDone ==
    /\ \E t \in OverlayTiles : \E loadState \in {"Loaded", "Failed"} :
           /\ provider.tiles[t].exists
           /\ provider.tiles[t].state = "Loading"
           /\ provider' = doLoadDone(provider, t, loadState)
           /\ lastOp' = [op |-> "doLoadDone", pTile |-> t]
    /\ UNCHANGED <<config, tileset>>

NextOverlay ==
    \/ GetTile
    \/ ReleaseTile
    \/ LoadTile
    \/ LoadTileThrottled
    \/ OverlayLoadDone

SpecOverlay == InitOverlay /\ [][NextOverlay]_vars


\* The content loader registry on its own: loaders are registered at
\* startup, then createContent is called with responses whose data, content
\* type and url are drawn from small sets of strings.
B3dm == <<"b", "3", "d", "m">>

\* the bytes of the short responses
DataBytes == {"{", " ", "b"}

\* the length of the responses that are enumerated in full
MaxShortData == 3

RECURSIVE SeqsUpTo(_, _)
\* the sequences over the set of at most n elements
SeqsUpTo(set, n) ==
    IF n = 0 THEN {<<>>}
    ELSE SeqsUpTo(set, n - 1)
             \cup {Append(q, x) : q \in SeqsUpTo(set, n - 1), x \in set}

ResponseData ==
    SeqsUpTo(DataBytes, MaxShortData)
        \cup {B3dm, B3dm \o <<"{">>, Json, Json \o <<" ">>,
              <<" ", " ", " ", " ", "{">>, <<"{", "b", "b", "b">>,
              <<"b", "b", "b", "b">>, <<" ", " ", " ", "b", "{">>}

ResponseContentTypes ==
    {<<>>, <<"a", "/", "b">>, <<"A", "/", "B">>, <<"a", "/", "B">>,
     <<"a", "/", "b", ";", "x">>, <<"A", "/", "b", ";", "x">>,
     <<"a", "/", "g">>, <<";", "a", "/", "b">>, <<"x", ";", "a", "/", "b">>}

RequestUrls ==
    {<<>>, <<"t">>, <<"t", ".", "g">>, <<"t", ".", "G">>,
     <<"t", ".", "g", "?", "x">>, <<"t", "?", "x", ".", "g">>,
     <<".", "g">>, <<"t", ".">>, <<"t", ".", "g", ".", "b">>,
     <<"t", ".", "b", ".", "g">>, <<"t", ".", "G", "?", ".", "b">>}

InitContent ==
    /\ options \in AddConfigurations
    /\ refine = [t \in Tiles |-> "Replace"]
    /\ rootLoad = "json"
    /\ state = [t \in Tiles |-> "Unloaded"]
    /\ content = [t \in Tiles |-> "null"]
    /\ sel = [t \in Tiles |-> NeverSelected]
    /\ _previousFrameNumber = 0
    /\ _loadsInProgress = 1
    /\ _isRefreshingIonToken = FALSE
    /\ ionRequests = <<>>
    /\ _loadedTiles = <<>>
    /\ _tileDataBytes = 0
    /\ _updateResult = EmptyResult
    /\ _loadQueueHigh = <<>>
    /\ _loadQueueMedium = <<>>
    /\ _loadQueueLow = <<>>
    /\ frame = NoFrame
    /\ provider = NoProvider
    /\ loaders = NoLoaders
    /\ octree = NoOctreeLoader
    /\ subtrees = NoSubtreeLoads
    /\ lastOp = [op |-> "construct"]

\* the registration of the loaders happens before any content is created
Registering == lastOp.op \in {"construct", "register"}

RegisterMagic ==
    /\ Registering
    /\ \E m \in {Json, B3dm} :
           loaders' = registerMagic(
                          loaders, m,
                          IF m = Json THEN "ExternalTilesetContent"
                          ELSE "Batched3DModelContent")
    /\ lastOp' = [op |-> "register"]
    /\ UNCHANGED <<options, refine, octree, subtrees, provider, tileset>>

RegisterContentType ==
    /\ Registering
    /\ \E contentType \in {<<"a", "/", "b">>, <<"A", "/", "B">>} :
           loaders' = registerContentType(
                          loaders, contentType, "QuantizedMeshContent")
    /\ lastOp' = [op |-> "register"]
    /\ UNCHANGED <<options, refine, octree, subtrees, provider, tileset>>

RegisterFileExtension ==
    /\ Registering
    /\ \E fileExtension \in {<<".", "g">>, <<".", "G">>} :
           loaders' = registerFileExtension(
                          loaders, fileExtension, "GltfContent")
    /\ lastOp' = [op |-> "register"]
    /\ UNCHANGED <<options, refine, octree, subtrees, provider, tileset>>

\* TileContentFactory::createContent for a response.  The result depends on
\* the response and the maps alone, so one call is explored for each state
\* of the maps and each response.
CreateContent ==
    /\ Registering
    /\ \E data \in ResponseData : \E contentType \in ResponseContentTypes :
       \E url \in RequestUrls :
           lastOp' = [op |-> "createContent",
                      data |-> data,
                      contentType |-> contentType,
                      url |-> url,
                      pLoader |-> createContent(
                                      loaders, data, contentType, url)]
    /\ UNCHANGED <<config, provider, tileset>>

NextContent ==
    \/ RegisterMagic
    \/ RegisterContentType
    \/ RegisterFileExtension
    \/ CreateContent

SpecContent == InitContent /\ [][NextContent]_vars


\* The composite loader on its own: load is called once with a response
\* whose size and header fields are drawn from small sets; the inner headers
\* and the results of loading the inner tiles are drawn with them.
MaxInnerTiles == 3

CompositeSizes == {2, 4, 7, 10, 13}

InnerByteLengths == {3, 6, Uint32Words - 3}

Composites ==
    [size : CompositeSizes,
     magic : {"cmpt", "b3dm"},
     version : {1, 2},
     byteLength : {4, 7, 10, 13, 16},
     tilesLength : 0..MaxInnerTiles,
     inner : [1..MaxInnerTiles ->
                 [byteLength : InnerByteLengths,
                  loaded : {"nullptr", "empty", "model"}]]]

\* what undefined behaviour in the merge can end in: no result at all, or
\* any content
UndefinedOutcomes(cmpt) ==
    {NoResult, NullContent}
        \cup {innerContent(i, cmpt.inner[i].loaded) : i \in 1..MaxInnerTiles}

\* CompositeContent::load for a response
CompositeLoad ==
    /\ lastOp.op = "construct"
    /\ \E cmpt \in Composites :
           /\ (cmpt.magic # "cmpt" \/ cmpt.version # 1)
                  => cmpt.inner = [i \in 1..MaxInnerTiles |->
                                     [byteLength |-> 3, loaded |-> "model"]]
           /\ \E outcome \in UndefinedOutcomes(cmpt) :
                  /\ ~compositeLoad(cmpt).undefined
                         => outcome = NullContent
                  /\ lastOp' =
                         [op |-> "compositeLoad",
                          cmpt |-> cmpt,
                          undefined |-> compositeLoad(cmpt).undefined,
                          warned |-> compositeLoad(cmpt).warned,
                          pResult |->
                              IF compositeLoad(cmpt).undefined
                              THEN outcome
                              ELSE compositeLoad(cmpt).pResult]
    /\ UNCHANGED <<config, provider, tileset>>

NextComposite == CompositeLoad

SpecComposite == InitContent /\ [][NextComposite]_vars


\* The implicit octree loader on its own: createTileChildren is called once
\* for a tile of the levels 0..MaxOctreeLevel of an octree whose subtrees
\* have 1..MaxSubtreeLevels levels, with at most one subtree loaded.
MaxOctreeLevel == 2

MaxSubtreeLevels == 3

OctreeTiles ==
    {OctreeTileID(level, x, y, z) :
        level \in 0..MaxOctreeLevel,
        x \in 0..(pow2(MaxOctreeLevel) - 1),
        y \in 0..(pow2(MaxOctreeLevel) - 1),
        z \in 0..(pow2(MaxOctreeLevel) - 1)}

ValidOctreeTile(id) ==
    id.x < pow2(id.level) /\ id.y < pow2(id.level) /\ id.z < pow2(id.level)

\* the Morton index of the tile inside the subtree it belongs to
RelativeMortonOf(id, subtreeLevels) ==
    morton3D_64_encode(
        id.x % pow2(id.level % subtreeLevels),
        id.y % pow2(id.level % subtreeLevels),
        id.z % pow2(id.level % subtreeLevels))

\* the Morton index of the root of the subtree the tile belongs to
SubtreeMortonOf(id, subtreeLevels) ==
    morton3D_64_encode(
        id.x \div pow2(id.level % subtreeLevels),
        id.y \div pow2(id.level % subtreeLevels),
        id.z \div pow2(id.level % subtreeLevels))

\* the Morton indices of the bitfields that are set alone: those of the
\* children of the tile, of the children of the next tile and of the
\* children of the tile of half the index
SingleBits(id, subtreeLevels) ==
    {k \in 0..(pow2(3 * ((id.level % subtreeLevels) + 1)) - 1) :
        k \div 8 \in {RelativeMortonOf(id, subtreeLevels),
                       (RelativeMortonOf(id, subtreeLevels) + 1)
                           % pow2(3 * (id.level % subtreeLevels)),
                       RelativeMortonOf(id, subtreeLevels) \div 2}}

\* all bits of the level of the children of the tile
AllBits(id, subtreeLevels) ==
    0..(pow2(3 * ((id.level % subtreeLevels) + 1)) - 1)

BitChoices(id, subtreeLevels) ==
    {{}, AllBits(id, subtreeLevels)}
        \cup {{k} : k \in SingleBits(id, subtreeLevels)}

AtChildLevel(id, subtreeLevels, bits) ==
    {<<(id.level % subtreeLevels) + 1, k>> : k \in bits}

\* the availabilities of the loaded subtree: the chosen bits in one of the
\* bitfields or in two of them, the others all set or all clear
Availabilities(id, subtreeLevels) ==
    UNION {
        {[tile |-> AtChildLevel(id, subtreeLevels, bits),
          content |-> AtChildLevel(id, subtreeLevels, bits),
          subtree |-> {}],
         [tile |-> AtChildLevel(id, subtreeLevels, bits),
          content |-> {},
          subtree |-> AllBits(id, subtreeLevels)],
         [tile |-> AtChildLevel(id, subtreeLevels,
                                AllBits(id, subtreeLevels)),
          content |-> AtChildLevel(id, subtreeLevels, bits),
          subtree |-> {}],
         [tile |-> {},
          content |-> AtChildLevel(id, subtreeLevels,
                                   AllBits(id, subtreeLevels)),
          subtree |-> bits]} :
        bits \in BitChoices(id, subtreeLevels)}

\* _loadedSubtrees with size levels: nothing loaded, or one subtree loaded
\* under the Morton index key at the level index idx
LoadedSubtrees(size, idx, key, availability) ==
    [i \in 1..size |->
        IF i = idx + 1
        THEN <<[key |-> key, second |-> availability]>>
        ELSE <<>>]

ImplicitLoaders(id) ==
    UNION {
        {[_subtreeLevels |-> subtreeLevels,
          _loadedSubtrees |-> LoadedSubtrees(size, idx, key, availability)] :
            availability \in Availabilities(id, subtreeLevels),
            idx \in {id.level \div subtreeLevels,
                     ((id.level \div subtreeLevels) + 1) % size},
            key \in {SubtreeMortonOf(id, subtreeLevels),
                     SubtreeMortonOf(id, subtreeLevels) + 1}}
            \cup {[_subtreeLevels |-> subtreeLevels,
                   _loadedSubtrees |-> [i \in 1..size |-> <<>>]]} :
        subtreeLevels \in 1..MaxSubtreeLevels,
        size \in {1, MaxOctreeLevel + 1}}

\* ImplicitOctreeLoader::createTileChildren for a tile
CreateTileChildren ==
    /\ lastOp.op = "construct"
    /\ \E id \in OctreeTiles : \E loader \in ImplicitLoaders(id) :
           /\ ValidOctreeTile(id)
           /\ lastOp' = [op |-> "createTileChildren",
                         loader |-> loader,
                         octreeID |-> id,
                         children |-> createTileChildren(loader, id).children,
                         state |-> createTileChildren(loader, id).state]
    /\ UNCHANGED <<config, provider, tileset>>

NextOctree == CreateTileChildren

SpecOctree == InitContent /\ [][NextOctree]_vars


\* ---------------------------------------------------------------------
\* Terrain layers (layer.json): Tileset::_createTerrainTile
\* ---------------------------------------------------------------------

\* Globe rectangles are held in thousandths of a degree.
GeographicMaximumGlobeRectangle ==
    [west |-> -180000, south |-> -90000, east |-> 180000, north |-> 90000]

\* the latitude at which the Web Mercator projection is cut off (85.0511...)
WebMercatorMaximumGlobeRectangle ==
    [west |-> -180000, south |-> -85051, east |-> 180000, north |-> 85051]

fromDegrees(west, south, east, north) ==
    [west |-> west * 1000, south |-> south * 1000,
     east |-> east * 1000, north |-> north * 1000]

\* GlobeRectangle::computeWidth: a rectangle may cross the anti-meridian
computeWidth(rectangle) ==
    IF rectangle.east < rectangle.west
    THEN rectangle.east - rectangle.west + 360000
    ELSE rectangle.east - rectangle.west

\* the rectangle in the coordinates of the projection
project(projection, rectangle) ==
    [projection |-> projection, globe |-> rectangle]

BoundingRegion(rectangle, minimumHeight, maximumHeight) ==
    [rectangle |-> rectangle,
     minimumHeight |-> minimumHeight,
     maximumHeight |-> maximumHeight]

createDefaultLooseEarthBoundingVolume(globeRectangle) ==
    BoundingRegion(globeRectangle, -1000, -9000)

QuadtreeTilingScheme(rectangle, rootTilesX, rootTilesY) ==
    [rectangle |-> rectangle,
     rootTilesX |-> rootTilesX,
     rootTilesY |-> rootTilesY]

\* tilingScheme->tileToRectangle(QuadtreeTileID(0, x, 0)) brought back to the
\* globe: both projections are linear in the longitude
rootTileGlobeRectangle(tilingScheme, x) ==
    LET globe == tilingScheme.rectangle.globe
        width == computeWidth(globe) \div tilingScheme.rootTilesX
    IN  [globe EXCEPT !.west = globe.west + x * width,
                      !.east = globe.west + (x + 1) * width]

RECURSIVE createExtensionsQueryParameter(_, _)
createExtensionsQueryParameter(knownExtensions, extensions) ==
    IF knownExtensions = <<>> THEN <<>>
    ELSE IF \E i \in 1..Len(extensions) :
                extensions[i] = Head(knownExtensions)
    THEN <<Head(knownExtensions)>> \o
             createExtensionsQueryParameter(Tail(knownExtensions), extensions)
    ELSE createExtensionsQueryParameter(Tail(knownExtensions), extensions)

\* Uri::addQuery(url, "extensions", value)
addQuery(url, value) == [url EXCEPT !.extensions = value]

NoBoundingVolume ==
    [rectangle |-> [west |-> 0, south |-> 0, east |-> 0, north |-> 0],
     minimumHeight |-> 0, maximumHeight |-> 0, unset |-> TRUE]

\* TileContext::implicitContext is std::nullopt
NoImplicitContext == [present |-> FALSE]

\* the tile and the context handed to _createTerrainTile: a fresh root tile
\* of a context created by _loadTilesetJson
TerrainRoot ==
    [requestHeaders |-> <<>>,
     version |-> <<>>,
     implicitContext |-> NoImplicitContext,
     boundingVolume |-> NoBoundingVolume,
     geometricError |-> 0,
     children |-> <<>>]

\* the root tiles of the quadtree, children of the tile of the layer
terrainChildTile(tilingScheme, x) ==
    [tileID |-> [level |-> 0, x |-> x, y |-> 0],
     boundingVolume |->
         createDefaultLooseEarthBoundingVolume(
             rootTileGlobeRectangle(tilingScheme, x)),
     \* in units of 8.0 * calcQuadtreeMaxGeometricError(Ellipsoid::WGS84)
     geometricError |->
         computeWidth(rootTileGlobeRectangle(tilingScheme, x))]

\* _createTerrainTile once the projection is known
createTerrainTileOf(start, layerJson, useWaterMask, projection, globe, quadtreeXTiles) ==
    LET boundingVolume == createDefaultLooseEarthBoundingVolume(globe)
        tilingScheme ==
            QuadtreeTilingScheme(
                project(projection, globe), quadtreeXTiles, 1)
        extensionsToRequest ==
            createExtensionsQueryParameter(
                IF useWaterMask
                THEN <<"octvertexnormals", "metadata", "watermask">>
                ELSE <<"octvertexnormals", "metadata">>,
                layerJson.extensions)
    IN  [start EXCEPT
            !.implicitContext =
                [present |-> TRUE,
                 tileTemplateUrls |->
                     [i \in 1..Len(layerJson.tiles) |->
                         IF extensionsToRequest # <<>>
                         THEN addQuery(layerJson.tiles[i],
                                       extensionsToRequest)
                         ELSE layerJson.tiles[i]],
                 quadtreeTilingScheme |-> tilingScheme,
                 implicitRootBoundingVolume |-> boundingVolume,
                 projection |-> projection,
                 maxZoom |-> IF layerJson.maxzoom = <<>> THEN 30
                             ELSE layerJson.maxzoom[1]],
            !.boundingVolume = boundingVolume,
            !.geometricError = 999999999,
            !.children = [i \in 1..quadtreeXTiles |->
                             terrainChildTile(tilingScheme, i - 1)]]

\* a reading of the projection member that takes every value for geographic
createTerrainTileAlwaysGeographic(layerJson, useWaterMask) ==
    createTerrainTileOf(
        [TerrainRoot EXCEPT !.requestHeaders = <<"Accept">>,
                            !.version = layerJson.version],
        layerJson, useWaterMask, "Geographic",
        IF Len(layerJson.bounds) >= 4
        THEN fromDegrees(layerJson.bounds[1], layerJson.bounds[2],
                         layerJson.bounds[3], layerJson.bounds[4])
        ELSE GeographicMaximumGlobeRectangle,
        2)

\* Tileset::_createTerrainTile(tile, layerJson, context, pLogger, useWaterMask)
createTerrainTile(layerJson, useWaterMask) ==
    LET start == [TerrainRoot EXCEPT
                     !.requestHeaders = <<"Accept">>,
                     !.version = layerJson.version]
        projectionString == IF layerJson.projection = <<>> THEN "EPSG:4326"
                            ELSE layerJson.projection[1]
        bounds == layerJson.bounds
        given == fromDegrees(bounds[1], bounds[2], bounds[3], bounds[4])
    IN  IF projectionString = "EPSG:4326"
        THEN createTerrainTileOf(
                 start, layerJson, useWaterMask, "Geographic",
                 IF Len(bounds) >= 4 THEN given
                 ELSE GeographicMaximumGlobeRectangle,
                 2)
        ELSE IF projectionString = "EPSG:3857"
        THEN createTerrainTileOf(
                 start, layerJson, useWaterMask, "WebMercator",
                 IF Len(bounds) >= 4 THEN given
                 ELSE WebMercatorMaximumGlobeRectangle,
                 1)
        ELSE start

\* layer.json documents: the members _createTerrainTile reads, each absent
\* (an empty sequence) or present
LayerBounds ==
    {<<>>, <<0, 0>>, <<-180, -90, 180, 90>>, <<-180, -90, 0, 90>>,
     <<0, -45, 90, 45>>, <<170, -10, -170, 10>>,
     <<-180, -85, 180, 85, 7>>}

LayerUrls ==
    {[template |-> u, extensions |-> <<>>] : u \in {"a.terrain", "b.terrain"}}

LayerJsons ==
    [version : {<<>>, <<"1.0.0">>},
     projection : {<<>>, <<"EPSG:4326">>, <<"EPSG:3857">>, <<"foo">>,
                   <<"epsg:4326">>},
     bounds : LayerBounds,
     tiles : {<<>>} \cup {<<u>> : u \in LayerUrls},
     maxzoom : {<<>>, <<10>>},
     extensions : {<<>>, <<"watermask">>, <<"metadata", "octvertexnormals">>,
                   <<"watermask", "bvh", "octvertexnormals">>}]

\* _loadTilesetJson creates the tile of a quantized-mesh layer
CreateTerrainTile ==
    /\ lastOp.op = "construct"
    /\ \E layerJson \in LayerJsons : \E useWaterMask \in BOOLEAN :
           lastOp' = [op |-> "createTerrainTile",
                      layerJson |-> layerJson,
                      useWaterMask |-> useWaterMask,
                      tile |-> createTerrainTile(layerJson, useWaterMask)]
    /\ UNCHANGED <<config, provider, tileset>>

NextTerrain == CreateTerrainTile

SpecTerrain == InitContent /\ [][NextTerrain]_vars


\* The implicit octree loader and its users: loadTileContent is called for
\* tiles of an octree with the response of the request getRequestWork asked
\* for, and the subtree loads it starts complete in the main thread in any
\* order.
MaxOctreeLoads == 2

OctreeLoadTiles ==
    {OctreeTileID(0, 0, 0, 0), OctreeTileID(1, 0, 0, 0),
     OctreeTileID(1, 1, 0, 1), OctreeTileID(2, 0, 0, 0),
     OctreeTileID(2, 3, 1, 2)}

\* the content bitfields a subtree file may hold: no bit, the bit of the
\* root of the subtree, or every bit
SubtreeFiles(subtreeLevels) ==
    {[tile |-> {}, content |-> bits, subtree |-> {}] :
        bits \in {{}, {<<0, 0>>},
                  {<<0, 0>>} \cup
                      {<<1, k>> : k \in IF subtreeLevels > 1 THEN 0..7
                                        ELSE {}}}}

\* what the server may answer to the request of a url
ResponseBytes(url, subtreeLevels) ==
    IF url.urlTemplate = "subtree"
    THEN {[kind |-> "subtree", availability |-> a] :
              a \in SubtreeFiles(subtreeLevels)}
             \cup {[kind |-> "garbage"]}
    ELSE {[kind |-> "content", converter |-> TRUE, errors |-> FALSE,
           model |-> TRUE],
          [kind |-> "content", converter |-> TRUE, errors |-> TRUE,
           model |-> TRUE],
          [kind |-> "content", converter |-> TRUE, errors |-> FALSE,
           model |-> FALSE],
          [kind |-> "content", converter |-> FALSE, errors |-> FALSE,
           model |-> FALSE]}

OctreeLoaders ==
    {[_subtreeLevels |-> subtreeLevels,
      _loadedSubtrees |-> [i \in 1..size |-> <<>>],
      loads |-> <<>>] :
        subtreeLevels \in 1..2, size \in 1..2}

InitOctreeLoad ==
    /\ options \in AddConfigurations
    /\ refine = [t \in Tiles |-> "Replace"]
    /\ rootLoad = "json"
    /\ state = [t \in Tiles |-> "Unloaded"]
    /\ content = [t \in Tiles |-> "null"]
    /\ sel = [t \in Tiles |-> NeverSelected]
    /\ _previousFrameNumber = 0
    /\ _loadsInProgress = 1
    /\ _isRefreshingIonToken = FALSE
    /\ ionRequests = <<>>
    /\ _loadedTiles = <<>>
    /\ _tileDataBytes = 0
    /\ _updateResult = EmptyResult
    /\ _loadQueueHigh = <<>>
    /\ _loadQueueMedium = <<>>
    /\ _loadQueueLow = <<>>
    /\ frame = NoFrame
    /\ provider = NoProvider
    /\ loaders = NoLoaders
    /\ octree \in OctreeLoaders
    /\ subtrees = NoSubtreeLoads
    /\ lastOp = [op |-> "construct"]

\* the response data the caller of loadTileContent hands over: the response
\* to the request of the url getRequestWork gave, if it gave one
responseDataOf(work, bytes) ==
    IF work.result THEN <<[key |-> work.outUrl, bytes |-> bytes]>>
    ELSE <<>>

\* the content of a tile is loaded: getRequestWork, the request it asks for,
\* and loadTileContent with the response
OctreeLoadTileContent ==
    /\ Len(octree.loads) < MaxOctreeLoads
    /\ \E pOctreeID \in {<<>>} \cup {<<id>> : id \in OctreeLoadTiles} :
       \E bytes \in ResponseBytes(getRequestWork(octree, pOctreeID).outUrl,
                                  octree._subtreeLevels) :
           /\ octree' =
                  loadTileContent(
                      octree, pOctreeID,
                      responseDataOf(getRequestWork(octree, pOctreeID), bytes)
                  ).loader
           /\ lastOp' =
                  [op |-> "loadTileContent",
                   pOctreeID |-> pOctreeID,
                   work |-> getRequestWork(octree, pOctreeID),
                   lookedUp |->
                       loadTileContent(
                           octree, pOctreeID,
                           responseDataOf(
                               getRequestWork(octree, pOctreeID), bytes)
                       ).lookedUp,
                   state |->
                       loadTileContent(
                           octree, pOctreeID,
                           responseDataOf(
                               getRequestWork(octree, pOctreeID), bytes)
                       ).state,
                   content |->
                       loadTileContent(
                           octree, pOctreeID,
                           responseDataOf(
                               getRequestWork(octree, pOctreeID), bytes)
                       ).content,
                   decoded |-> requestTileContent(bytes)]
    /\ UNCHANGED <<options, refine, loaders, subtrees, provider, tileset>>

\* a subtree load of loadTileContent completes: the continuation in the main
\* thread, which resolves the future with RetryLater
OctreeSubtreeLoaded ==
    /\ \E i \in 1..Len(octree.loads) :
           /\ octree' = subtreeLoaded(octree, i)
           /\ lastOp' = [op |-> "subtreeLoaded",
                         subtreeID |-> octree.loads[i].subtreeID,
                         parsed |-> loadSubtreeAvailability(
                                        octree.loads[i].bytes) # <<>>,
                         state |-> "RetryLater"]
    /\ UNCHANGED <<options, refine, loaders, subtrees, provider, tileset>>

NextOctreeLoad ==
    \/ OctreeLoadTileContent
    \/ OctreeSubtreeLoaded

SpecOctreeLoad == InitOctreeLoad /\ [][NextOctreeLoad]_vars


\* The availability subtree loads of a tileset on their own: each frame the
\* traversal queues subtree loads for the implicit tiles it visits and
\* processSubtreeQueue starts them; the requests complete in any order.
SubtreeConfigurations ==
    [forbidHoles : {FALSE},
     preloadAncestors : {FALSE},
     preloadSiblings : {FALSE},
     loadingDescendantLimit : {2},
     maximumSimultaneousTileLoads : {3},
     maximumCachedBytes : {3},
     overlayDataBytes : {0},
     ionAssetID : {FALSE},
     emptyTiles : {{}},
     unconditionallyRefine : {{}},
     maximumSimultaneousSubtreeLoads : 1..MaxSubtreeTiles]

InitSubtree ==
    /\ options \in SubtreeConfigurations
    /\ refine = [t \in Tiles |-> "Replace"]
    /\ rootLoad = "json"
    /\ state = [t \in Tiles |-> "Unloaded"]
    /\ content = [t \in Tiles |-> "null"]
    /\ sel = [t \in Tiles |-> NeverSelected]
    /\ _previousFrameNumber = 0
    /\ _loadsInProgress = 1
    /\ _isRefreshingIonToken = FALSE
    /\ ionRequests = <<>>
    /\ _loadedTiles = <<>>
    /\ _tileDataBytes = 0
    /\ _updateResult = EmptyResult
    /\ _loadQueueHigh = <<>>
    /\ _loadQueueMedium = <<>>
    /\ _loadQueueLow = <<>>
    /\ frame = NoFrame
    /\ provider = NoProvider
    /\ loaders = NoLoaders
    /\ octree = NoOctreeLoader
    /\ subtrees = NoSubtreeLoads
    /\ lastOp = [op |-> "construct"]

\* the visits of a frame: some of the implicit tiles in the order of the
\* traversal, the priority of a tile given by the camera
SubtreeVisits ==
    {[i \in 1..Len(order) |->
         [tile |-> order[i],
          subtreeAvailable |-> order[i] \in available,
          shouldQueueSubtreeLoad |-> order[i] \in wanted,
          priority |-> Priority(cam, order[i])]] :
        order \in {<<>>, <<1>>, <<2>>, <<3>>, <<1, 2>>, <<2, 3>>,
                   <<1, 2, 3>>},
        available \in {SubtreeTiles, {1, 2}},
        wanted \in {SubtreeTiles, {2, 3}},
        cam \in {"forward", "backward"}}

\* updateView as far as the subtree loads go: the queue is cleared, the
\* traversal fills it, and _processLoadQueue calls processSubtreeQueue
SubtreeUpdateView ==
    /\ ~subtrees.crashed
    /\ \E visits \in SubtreeVisits :
           /\ subtrees' =
                  processSubtreeQueue(
                      queueSubtreesFrom(
                          1, visits,
                          [subtrees EXCEPT !._subtreeLoadQueue = <<>>]),
                      options.maximumSimultaneousSubtreeLoads)
           /\ lastOp' = [op |-> "updateView", visits |-> visits]
    /\ UNCHANGED <<options, refine, loaders, octree, provider, tileset>>

\* the request of a subtree completes with a subtree that parsed
SubtreeLoadDone ==
    /\ ~subtrees.crashed
    /\ \E i \in 1..Len(subtrees.requests) :
           /\ subtrees' = subtreeLoadDone(subtrees, i)
           /\ lastOp' = [op |-> "subtreeLoadDone",
                         request |-> subtrees.requests[i],
                         response |-> "subtree"]
    /\ UNCHANGED <<options, refine, loaders, octree, provider, tileset>>

\* the request of a subtree fails: no response, an error status, or a
\* subtree that does not parse
SubtreeLoadFailed ==
    /\ ~subtrees.crashed
    /\ \E i \in 1..Len(subtrees.requests) :
       \E response \in {"none", "status404", "unparsed"} :
       \E outcome \in {"garbage", "crash"} :
           /\ subtrees' = subtreeLoadFailed(subtrees, i, outcome)
           /\ lastOp' = [op |-> "subtreeLoadFailed",
                         request |-> subtrees.requests[i],
                         response |-> response]
    /\ UNCHANGED <<options, refine, loaders, octree, provider, tileset>>

\* the request of a subtree or its handling in the worker thread throws
SubtreeLoadThrew ==
    /\ ~subtrees.crashed
    /\ \E i \in 1..Len(subtrees.requests) :
           /\ subtrees' = subtreeLoadThrew(subtrees, i)
           /\ lastOp' = [op |-> "subtreeLoadThrew",
                         request |-> subtrees.requests[i],
                         response |-> "exception"]
    /\ UNCHANGED <<options, refine, loaders, octree, provider, tileset>>

NextSubtree ==
    \/ SubtreeUpdateView
    \/ SubtreeLoadDone
    \/ SubtreeLoadFailed
    \/ SubtreeLoadThrew

SpecSubtree == InitSubtree /\ [][NextSubtree]_vars


\* A frame of updateView has been computed for the root tile
FrameDone == frame.number > 0 /\ frame.number = _previousFrameNumber

RenderSet == Range(_updateResult.tilesToRenderThisFrame)

NoLongerRenderSet == Range(_updateResult.tilesToNoLongerRenderThisFrame)

\* C1: every tile in tilesToRenderThisFrame of frame f has a last selection
\* state of frame f whose original result is Rendered.
C1_RenderedTilesAreSelectedRendered ==
    FrameDone =>
        \A t \in RenderSet :
            /\ sel[t].frameNumber = _previousFrameNumber
            /\ getOriginalResult(sel[t], _previousFrameNumber) = "Rendered"

\* C2: no tile is in both tilesToNoLongerRenderThisFrame and
\* tilesToRenderThisFrame of a frame.
C2_NoLongerRenderedDisjointFromRendered ==
    RenderSet \cap NoLongerRenderSet = {}

\* C2 witness: a frame reports a tile as no longer rendered while it renders
\* other tiles.
C2_Witness ==
    /\ FrameDone
    /\ NoLongerRenderSet # {}
    /\ RenderSet # {}
    /\ \E t \in RenderSet : refine[t] = "Add"

\* C3: in every frame after the first, tilesToNoLongerRenderThisFrame is, as
\* a set, the render list of the previous frame minus the render list of
\* this frame.
C3_NoLongerRenderedIsPreviousMinusCurrent ==
    (FrameDone /\ frame.number > 1) =>
        NoLongerRenderSet = Range(frame.prevRender) \ RenderSet

\* ------------------------------------------------------------ load throttle

ContentLoadingTiles == {t \in Tiles : state[t] = "ContentLoading"}

\* the load queue of the given name, as the last frame left it
QueueOf(q) ==
    CASE q = "High" -> _loadQueueHigh
      [] q = "Medium" -> _loadQueueMedium
      [] q = "Low" -> _loadQueueLow

\* C4: in every reachable state _loadsInProgress is at most
\* maximumSimultaneousTileLoads.
C4_LoadsInProgressWithinLimit ==
    _loadsInProgress <= options.maximumSimultaneousTileLoads

\* C4, amended: the dispatcher starts a tile load only while the counter is
\* below the limit, so at most maximumSimultaneousTileLoads tiles are in
\* ContentLoading and every load a queue started left the counter within the
\* limit; the token refresh request is counted without a look at the limit,
\* so the counter itself can exceed the limit by that one request.
C4_TileLoadsWithinLimit ==
    /\ Cardinality(ContentLoadingTiles) <= options.maximumSimultaneousTileLoads
    /\ _loadsInProgress
           <= options.maximumSimultaneousTileLoads + Len(ionRequests)
    /\ FrameDone =>
           \A q \in Queues :
               frame.dispatch[q].started # <<>> =>
                   frame.dispatch[q].inFlight
                       + Len(frame.dispatch[q].started)
                           <= options.maximumSimultaneousTileLoads

\* C4 witness: the token refresh request was counted while as many tile
\* loads as the limit allows were in flight.
C4_Witness ==
    /\ _loadsInProgress > options.maximumSimultaneousTileLoads
    /\ Cardinality(ContentLoadingTiles) = options.maximumSimultaneousTileLoads
    /\ ionRequests # <<>>

\* C5: for each load queue of a frame, the loads processQueue started are
\* the first N entries in ascending priority order, with
\* N = min(queueSize, limit - inFlight) when the queue is processed.
C5_DispatchedAreFirstNByPriority ==
    FrameDone =>
        \A q \in Queues :
            /\ Len(frame.dispatch[q].started) =
                   Max(0, Min(frame.dispatch[q].size,
                              options.maximumSimultaneousTileLoads
                                  - frame.dispatch[q].inFlight))
            /\ \A i \in 1..Len(QueueOf(q)) : \A j \in 1..Len(QueueOf(q)) :
                   (/\ QueueOf(q)[i].pTile \in Range(frame.dispatch[q].started)
                    /\ QueueOf(q)[j].pTile
                           \notin Range(frame.dispatch[q].started))
                   => QueueOf(q)[i].priority <= QueueOf(q)[j].priority

\* ---------------------------------------------------------------- eviction

\* The position of tile t in the LRU list the eviction walk of the last
\* frame began with (0: not in the list)
WalkIndex(t) ==
    IF t \in Range(frame.walk)
    THEN CHOOSE i \in 1..Len(frame.walk) : frame.walk[i] = t
    ELSE 0

\* The tiles in front of the root tile in that list (all, without the root)
TilesBeforeRoot ==
    {t \in Range(frame.walk) : WalkIndex(1) = 0 \/ WalkIndex(t) < WalkIndex(1)}

\* C6: after _unloadCachedTiles, the total data bytes are within
\* maximumCachedBytes, or the walk ended at the root tile or at the end of
\* the list (or at a referenced tile, which is no way the walk ends).
C6_WithinBudgetOrWalkEnded ==
    FrameDone =>
        \/ getTotalDataBytes(frame.bytes) <= options.maximumCachedBytes
        \/ frame.walkEnd \in {"root", "end"}

\* C6 witness: the eviction unloaded two tiles to get within the budget.
C6_Witness ==
    /\ FrameDone
    /\ Len(frame.evicted) >= 2
    /\ frame.walkEnd = "budget"

\* C7: the eviction unloads neither the root tile nor a tile visited in the
\* frame; only tiles in front of the root in the LRU list are unloaded.
C7_EvictionSparesRootAndVisited ==
    FrameDone =>
        \A t \in Range(frame.evicted) :
            /\ t # 1
            /\ t \notin frame.visited
            /\ t \in TilesBeforeRoot
            /\ WalkIndex(1) # 0

\* C7 witness: a tile was unloaded while the budget was still exceeded when
\* the walk reached the root.
C7_Witness ==
    /\ FrameDone
    /\ frame.evicted # <<>>
    /\ frame.walkEnd = "root"
    /\ frame.visited # {}

\* C8: the walk stops at the first tile that is the root or whose unload is
\* refused: no tile behind a refused tile is unloaded, and every unloaded
\* tile is unlinked from the LRU list.
C8_WalkStopsAtFirstRefusedTile ==
    FrameDone =>
        /\ \A r \in Range(frame.refused) : \A t \in Range(frame.evicted) :
               WalkIndex(t) < WalkIndex(r)
        /\ \A t \in Range(frame.evicted) : t \notin Range(_loadedTiles)

\* C8, amended: the walk ends only within the budget, at the root tile or
\* at the end of the list.  A tile whose unload is refused stays linked and
\* the walk goes on behind it: when the budget is still exceeded at the end,
\* every tile in front of the root was unloaded or refused.  Every unloaded
\* tile is unlinked, and no tile at or behind the root is touched.
C8_WalkSkipsRefusedTiles ==
    FrameDone =>
        /\ frame.walkEnd \in {"budget", "root", "end"}
        /\ Range(frame.evicted) \cup Range(frame.refused) \subseteq TilesBeforeRoot
        /\ \A t \in Range(frame.evicted) : t \notin Range(_loadedTiles)
        /\ \A t \in Range(frame.refused) : t \in Range(_loadedTiles)
        /\ getTotalDataBytes(frame.bytes) > options.maximumCachedBytes =>
               TilesBeforeRoot
                   = Range(frame.evicted) \cup Range(frame.refused)

\* C8 witness: the unload of a tile behind a refused tile brought the total
\* within the budget.
C8_Witness ==
    /\ FrameDone
    /\ frame.walkEnd = "budget"
    /\ \E r \in Range(frame.refused) :
           WalkIndex(r) < WalkIndex(frame.evicted[Len(frame.evicted)])

\* ------------------------------------------------------------ token refresh

FailedWith401 ==
    {t \in Tiles : state[t] = "FailedTemporarily" /\ content[t] = "http401"}

\* C9: at most one endpoint refresh request is outstanding, the flag is set
\* exactly while it is, and handling the response or the exception clears it.
C9_TokenRefreshSingleFlight ==
    /\ Len(ionRequests) <= 1
    /\ _isRefreshingIonToken <=> ionRequests # <<>>
    /\ lastOp.op = "tokenRefresh" => ~_isRefreshingIonToken

\* C9 witness: two 401 failures were reported in one frame, and one request
\* is outstanding.
C9_Witness ==
    /\ FrameDone
    /\ frame.ionFailures >= 2
    /\ Len(ionRequests) = 1

\* C10: when the refresh response is handled, every tile of the refreshed
\* context in FailedTemporarily with status 401 becomes Unloaded (refresh
\* succeeded) or Failed (otherwise); every other tile is left unchanged.
C10_RefreshResponseSettlesWaitingTiles ==
    (lastOp.op = "tokenRefresh" /\ lastOp.outcome # "exception") =>
        \A t \in Tiles :
            IF /\ getContext(t) = lastOp.context
               /\ lastOp.state[t] = "FailedTemporarily"
               /\ lastOp.content[t] = "http401"
            THEN state[t] = IF lastOp.outcome = "ok"
                            THEN "Unloaded" ELSE "Failed"
            ELSE /\ state[t] = lastOp.state[t]
                 /\ content[t] = lastOp.content[t]

\* C10 witness: a successful refresh returned a waiting tile to Unloaded
\* while a tile of the other context, waiting as well, was left as it was.
C10_Witness ==
    /\ lastOp.op = "tokenRefresh"
    /\ lastOp.outcome = "ok"
    /\ \E t \in Tiles :
           /\ getContext(t) = lastOp.context
           /\ lastOp.state[t] = "FailedTemporarily"
           /\ state[t] = "Unloaded"
    /\ \E t \in FailedWith401 : getContext(t) # lastOp.context

\* C11: credential failures become transparent after one refresh cycle: once
\* the endpoint request has completed (with a response or with an
\* exception), every tile that was waiting in FailedTemporarily with status
\* 401 has left that state, to Unloaded or to Failed.
C11_RefreshCycleSettlesEveryWaitingTile ==
    lastOp.op = "tokenRefresh" =>
        \A t \in Tiles :
            (/\ lastOp.state[t] = "FailedTemporarily"
             /\ lastOp.content[t] = "http401")
            => state[t] \in {"Unloaded", "Failed"}

\* C11, amended: a completed endpoint request leaves a tile waiting in
\* FailedTemporarily with status 401 only when the request ended with an
\* exception or the tile belongs to another context than the request; the
\* single-flight flag is clear then, and every frame that visits a tile in
\* that state (left waiting, or failed with the old token after the refresh)
\* ends with an endpoint request outstanding, which is the next refresh cycle.
C11_WaitingTilesReenterRefreshCycle ==
    /\ lastOp.op = "tokenRefresh" =>
           /\ ~_isRefreshingIonToken
           /\ \A t \in FailedWith401 :
                  /\ lastOp.state[t] = "FailedTemporarily"
                  /\ \/ lastOp.outcome = "exception"
                     \/ getContext(t) # lastOp.context
    /\ (lastOp.op = "updateView" /\ FrameDone) =>
           \A t \in frame.visited \cap FailedWith401 :
               _isRefreshingIonToken /\ ionRequests # <<>>

\* C11 witness: the refresh request ended with an exception and left a tile
\* of its context waiting, with the flag clear.
C11_Witness ==
    /\ lastOp.op = "tokenRefresh"
    /\ lastOp.outcome = "exception"
    /\ ~_isRefreshingIonToken
    /\ \E t \in FailedWith401 : getContext(t) = lastOp.context

\* ---------------------------------------------------------- the load queues

\* The tiles of the three load queues of the last frame, High first
QueuedTiles ==
    [i \in 1..Len(_loadQueueHigh \o _loadQueueMedium \o _loadQueueLow) |->
        (_loadQueueHigh \o _loadQueueMedium \o _loadQueueLow)[i].pTile]

\* C12: within one frame no tile appears more than once in the union of the
\* High, Medium and Low load queues when they are dispatched.
C12_NoTileQueuedTwice ==
    FrameDone =>
        \A i \in 1..Len(QueuedTiles) : \A j \in 1..Len(QueuedTiles) :
            QueuedTiles[i] = QueuedTiles[j] => i = j

\* --------------------------------------------------------------- the kick

\* The calls of _kickDescendantsAndRenderTile of the last frame
Kicks == Range(frame.kicks)

\* The tiles whose load the dispatch of the last frame started
StartedTiles ==
    UNION {Range(frame.dispatch[q].started) : q \in Queues}

C13_Witness ==
    /\ FrameDone
    /\ \E k \in Kicks :
           /\ k.rewound
           /\ \E t \in Range(k.queuedBefore) : isAncestor(k.tile, t)
           /\ k.tile \in StartedTiles

\* C14: after a kick at tile T, every tile removed from the render list and
\* every ancestor of such a tile strictly below T is marked kicked for the
\* current frame; T itself is not marked kicked, and the selection state of
\* no ancestor of T is changed by the kick.
C14_KickMarksDescendantsBelowTile ==
    FrameDone =>
        \A k \in Kicks :
            /\ \A r \in Range(k.removed) :
                   /\ isAncestor(k.tile, r)
                   /\ wasKicked(k.sel[r], frame.number)
                   /\ \A a \in Tiles :
                          (isAncestor(a, r) /\ isAncestor(k.tile, a))
                          => wasKicked(k.sel[a], frame.number)
            /\ ~wasKicked(k.sel[k.tile], frame.number)
            /\ \A a \in Tiles :
                   isAncestor(a, k.tile) => k.sel[a] = k.selBefore[a]

\* C14 witness: a kick removed a tile two levels below the kicking tile and
\* marked the refined tile in between.
C14_Witness ==
    /\ FrameDone
    /\ \E k \in Kicks : \E r \in Range(k.removed) : \E a \in Tiles :
           /\ isAncestor(a, r)
           /\ isAncestor(k.tile, a)
           /\ k.sel[a].result = "RefinedAndKicked"
           /\ k.sel[r].result = "RenderedAndKicked"

\* C15: in every reachable state, the selection state of a tile has kicked
\* set only if its original result for that frame is Rendered.
C15_KickedOnlyIfOriginallyRendered ==
    \A t \in Tiles :
        wasKicked(sel[t], sel[t].frameNumber)
        => getOriginalResult(sel[t], sel[t].frameNumber) = "Rendered"

\* C15, amended: a kick changes the selection state of tiles below the
\* kicking tile only, and only states of the current frame whose result is
\* Rendered or Refined.  A tile marked kicked in a frame is absent from the
\* render list; its original result is Rendered and it is an entry the kick
\* removed, or its original result is Refined and it is such an entry (an
\* additive tile) or an ancestor of one.
C15_KickedWereRenderedOrRefined ==
    FrameDone =>
        /\ \A k \in Kicks : \A t \in Tiles \ {k.tile} :
               k.sel[t] # k.selBefore[t] =>
                   /\ isAncestor(k.tile, t)
                   /\ k.selBefore[t].frameNumber = frame.number
                   /\ k.selBefore[t].result \in {"Rendered", "Refined"}
                   /\ k.sel[t] = kick(k.selBefore[t])
        /\ \A t \in Tiles :
               wasKicked(sel[t], frame.number) =>
                   /\ t \notin RenderSet
                   /\ \E k \in Kicks :
                          /\ k.sel[t] # k.selBefore[t]
                          /\ \E r \in Range(k.removed) :
                                 IF k.selBefore[t].result = "Rendered"
                                 THEN r = t
                                 ELSE r = t \/ isAncestor(t, r)

\* C15 witness: a frame ends with a tile whose result is RefinedAndKicked
\* and a descendant of it whose result is RenderedAndKicked.
C15_Witness ==
    /\ FrameDone
    /\ \E a \in Tiles : \E r \in Tiles :
           /\ isAncestor(a, r)
           /\ getResult(sel[a], frame.number) = "RefinedAndKicked"
           /\ getResult(sel[r], frame.number) = "RenderedAndKicked"

\* ------------------------------------------------------------ forbid holes

\* The calls of _queueLoadOfChildrenRequiredForRefinement of the last frame
\* that found a child not yet renderable
Waits == Range(frame.waits)

SsesSeen ==
    {lastOp.sses[i] : i \in 1..Min(Len(lastOp.sses), lastOp.distances)}

\* meetsSse as the threshold comparison of the largest screen-space error
MeetsThreshold(threshold) ==
    /\ threshold > 0
    /\ \A e \in SsesSeen : e < threshold

Refinements == Range(frame.refinements)

Occurrences(seq, x) == Cardinality({i \in 1..Len(seq) : seq[i] = x})

\* C18: when the children of a refining tile T added entries to the render
\* list and their aggregate has !allAreRenderable and
\* !anyWereRenderedLastFrame, then at the end of the visit of T the render
\* list holds none of the tiles added during the visit, holds T exactly once
\* (whether T refines by replacement or by addition), and T's selection
\* result for the frame is Rendered; in every other case with entries added
\* T is recorded as Refined.
C18_KickOrRefined ==
    FrameDone =>
        \A r \in Refinements :
            IF ~r.allAreRenderable /\ ~r.anyWereRenderedLastFrame
            THEN /\ \A d \in Range(r.added) : d \notin Range(r.render)
                 /\ Occurrences(r.render, r.tile) = 1
                 /\ getResult(r.sel[r.tile], frame.number) = "Rendered"
            ELSE getResult(r.sel[r.tile], frame.number) = "Refined"

\* C18 witness: in one frame an additive tile kicked the entries its
\* children added, and another tile with entries added was recorded Refined.
C18_Witness ==
    /\ FrameDone
    /\ \E r \in Refinements :
           /\ refine[r.tile] = "Add"
           /\ ~r.allAreRenderable /\ ~r.anyWereRenderedLastFrame
           /\ r.added # <<>>
    /\ \E r \in Refinements :
           r.allAreRenderable \/ r.anyWereRenderedLastFrame

\* ------------------------------------------------- rewind of the load queues

\* The load queues at the end of a kick are those of its beginning cut back
\* to the saved sizes, with the tile itself added on Medium unless it was
\* queued before, is not Unloaded or has no content to load
RewoundToSavedSizes(k) ==
    /\ k.high = Prefix(k.highBefore, k.loadIndices.high)
    /\ k.low = Prefix(k.lowBefore, k.loadIndices.low)
    /\ k.medium \in
           {Prefix(k.mediumBefore, k.loadIndices.medium),
            Append(Prefix(k.mediumBefore, k.loadIndices.medium), k.tile)}
    /\ \/ k.medium # Prefix(k.mediumBefore, k.loadIndices.medium)
       \/ k.queuedForLoad
       \/ k.state # "Unloaded"
       \/ emptyContentUri(k.tile)

LoadEntriesKept(k) ==
    /\ k.high = k.highBefore
    /\ k.medium = k.mediumBefore
    /\ k.low = k.lowBefore

\* C19: during a kick at tile T the three load queues are rewound to their
\* saved sizes and T is enqueued on Medium instead exactly when
\* notYetRenderableCount > loadingDescendantLimit and T is not unconditionally
\* refining (no tile of the model has external content); otherwise the load
\* entries of the descendants are kept.
C19_RewindExactlyWhenOverLimit ==
    FrameDone =>
        \A k \in Kicks :
            IF /\ k.notYetRenderableCount > options.loadingDescendantLimit
               /\ ~getUnconditionallyRefine(k.tile)
            THEN k.rewound /\ RewoundToSavedSizes(k)
            ELSE ~k.rewound /\ LoadEntriesKept(k)

\* ------------------------------------------------------------ culled tiles

\* The visits of the last frame that ended with the tile Culled
Culls == Range(frame.culls)

\* the tile of the visit and the tiles below it
SubtreeOf(t) == {t} \cup {d \in Tiles : isAncestor(t, d)}

\* C20: a tile that is not to be visited is recorded as Culled for the
\* current frame; it and every tile of its subtree that was rendered in the
\* last frame are reported as no longer rendered; it is enqueued on the Low
\* queue only if preloadSiblings is set; nothing is added to the render
\* list, and none of its children is visited.
C20_CulledTileIsNotVisited ==
    FrameDone =>
        \A k \in Culls :
            /\ k.sel[k.tile] = TileSelectionState(frame.number, "Culled")
            /\ \A d \in SubtreeOf(k.tile) :
                   d \in Range(frame.prevRender) =>
                       d \in Range(k.noLonger) /\ d \in NoLongerRenderSet
            /\ k.queued.high = k.queuedBefore.high
            /\ k.queued.medium = k.queuedBefore.medium
            /\ k.queued.low \in
                   {k.queuedBefore.low, Append(k.queuedBefore.low, k.tile)}
            /\ k.tile \in Range(k.queued.low) => options.preloadSiblings
            /\ k.render = k.renderBefore
            /\ \A d \in SubtreeOf(k.tile) :
                   /\ d \notin RenderSet
                   /\ d # k.tile =>
                          /\ k.sel[d] = k.selBefore[d]
                          /\ sel[d].frameNumber # frame.number

\* ------------------------------------------------------- load state machine

\* The load state of the tile as the changes of the list (from i on) leave it
RECURSIVE StateAfterMoves(_, _, _, _)
StateAfterMoves(moves, i, t, s) ==
    IF i > Len(moves) THEN s
    ELSE StateAfterMoves(
             moves, i + 1, t, IF moves[i].tile = t THEN moves[i].to ELSE s)

\* The changes of load state of a step, with their cause: those of the
\* traversal, the eviction and the dispatch of an updateView, or the change
\* the continuation of a load or of a token refresh made.
StepMoves ==
    IF lastOp'.op = "updateView"
    THEN IF frame' = frame THEN {}
         ELSE {[tile |-> frame'.moves[i].tile, from |-> frame'.moves[i].from,
                to |-> frame'.moves[i].to, by |-> "traversal"] :
                   i \in 1..Len(frame'.moves)}
              \cup {[tile |-> t, from |-> frame'.traversed[t],
                     to |-> "Unloaded", by |-> "eviction"] :
                        t \in Range(frame'.evicted)}
              \cup {[tile |-> t,
                     from |-> IF t \in Range(frame'.evicted)
                              THEN "Unloaded" ELSE frame'.traversed[t],
                     to |-> "ContentLoading", by |-> "dispatch"] :
                        t \in UNION {Range(frame'.dispatch[q].started) :
                                        q \in Queues}}
    ELSE {[tile |-> t, from |-> state[t], to |-> state'[t],
           by |-> lastOp'.op] : t \in {u \in Tiles : state'[u] # state[u]}}

\* The history of a step is complete: the changes of the traversal begin
\* with the state of the tile and end with the state the traversal left, and
\* a tile without a change keeps its state.
StepMovesComplete ==
    /\ lastOp'.op = "updateView" /\ frame' # frame =>
           \A t \in Tiles :
               /\ StateAfterMoves(frame'.moves, 1, t, state[t])
                      = frame'.traversed[t]
               /\ \A i \in 1..Len(frame'.moves) :
                      frame'.moves[i].tile = t =>
                          frame'.moves[i].from
                              = StateAfterMoves(
                                    SubSeq(frame'.moves, 1, i - 1), 1, t,
                                    state[t])
    /\ \A t \in Tiles :
           state'[t] # state[t] => \E m \in StepMoves : m.tile = t

\* The transitions of the load state machine
StateMachineMove(m) ==
    \/ <<m.from, m.to>> \in
           {<<"Unloaded", "ContentLoading">>,
            <<"ContentLoading", "ContentLoaded">>,
            <<"ContentLoaded", "Done">>}
    \/ /\ m.from \notin {"Done", "Failed"}
       /\ m.to \in {"Failed", "FailedTemporarily"}
       /\ m.from # m.to
    \/ /\ m.from = "FailedTemporarily"
       /\ m.to = "Unloaded"
       /\ m.by = "tokenRefresh"
    \/ /\ m.to = "Unloaded"
       /\ m.by = "eviction"

FrameStep == lastOp'.op = "updateView" /\ frame' # frame

\* The changes of load state the traversal of the step made
TraversalMoves == Range(frame'.moves)

\* Outside the tiles the eviction unloaded, the step left the content of
\* every tile as it was
ContentKept ==
    \A t \in Tiles :
        t \notin Range(frame'.evicted) => content'[t] = content[t]

\* C22 as stated: the traversal of a frame changes no content, and no load
\* state except for the promotion ContentLoaded -> Done; it starts no token
\* refresh.
C22_TraversalOnlyPromotes ==
    [][FrameStep =>
           /\ ContentKept
           /\ \A m \in TraversalMoves :
                  <<m.from, m.to>> = <<"ContentLoaded", "Done">>
           /\ _isRefreshingIonToken' = _isRefreshingIonToken
           /\ ionRequests' = ionRequests]_vars

\* C22: the traversal of a frame changes no content; it changes a load
\* state only by the promotion ContentLoaded -> Done, by the step Unloaded ->
\* ContentLoaded of a tile without content that is to be loaded, and by the
\* step FailedTemporarily -> Failed of a tile whose failure is given up; it
\* starts a token refresh only for a tile that failed with 401 while no
\* refresh is under way.
C22_TraversalPromotesAndSettles ==
    [][FrameStep =>
           /\ ContentKept
           /\ \A m \in TraversalMoves :
                  \/ <<m.from, m.to>> = <<"ContentLoaded", "Done">>
                  \/ /\ <<m.from, m.to>> = <<"Unloaded", "ContentLoaded">>
                     /\ emptyContentUri(m.tile)
                  \/ /\ <<m.from, m.to>> = <<"FailedTemporarily", "Failed">>
                     /\ \/ ~options.ionAssetID
                        \/ content[m.tile] # "http401"
           /\ \/ /\ _isRefreshingIonToken' = _isRefreshingIonToken
                 /\ ionRequests' = ionRequests
              \/ /\ ~_isRefreshingIonToken
                 /\ _isRefreshingIonToken'
                 /\ frame'.ionFailures > 0
                 /\ \E t \in frame'.visited :
                        /\ state[t] = "FailedTemporarily"
                        /\ content[t] = "http401"
                        /\ ionRequests' = Append(ionRequests, getContext(t))]_vars

\* C22 witness: the traversal of the last frame promoted a tile to Done and
\* gave up a tile that had failed, and the root, a tile without content,
\* has once been set to ContentLoaded by a traversal and promoted since.
C22_Witness ==
    /\ FrameDone
    /\ \E m \in Range(frame.moves) :
           <<m.from, m.to>> = <<"ContentLoaded", "Done">>
    /\ \E m \in Range(frame.moves) :
           <<m.from, m.to>> = <<"FailedTemporarily", "Failed">>
    /\ emptyContentUri(1)
    /\ state[1] = "Done"

\* ------------------------------------------------- failure of the root load

\* C23: when the load of the tileset root has failed, the root tile handle
\* stays empty, the startup load has been counted as finished exactly once
\* (no load is in progress), and every updateView since returned empty
\* render and no-longer-render lists and zero statistics; no tile has ever
\* been queued, loaded or selected.
C23_FailedRootGivesEmptyFrames ==
    /\ rootLoad = "failed" =>
           /\ _loadsInProgress = 0
           /\ _updateResult = EmptyResult
           /\ _previousFrameNumber = 0
           /\ frame = NoFrame
           /\ _loadQueueHigh = <<>>
           /\ _loadQueueMedium = <<>>
           /\ _loadQueueLow = <<>>
           /\ _loadedTiles = <<>>
           /\ \A t \in Tiles :
                  state[t] = "Unloaded" /\ sel[t] = NeverSelected
    /\ rootLoad \in {"endpoint", "json"} => _loadsInProgress = 1

\* C23 witness: updateView was called after the load of the root failed.
C23_Witness ==
    /\ rootLoad = "failed"
    /\ lastOp.op = "updateView"

\* ------------------------------------------------ refinement after a kick

\* _visitTile ran in the frame of this step for exactly the root and its two
\* children: the root does not meet the screen-space error and its children
\* are rendered without being refined
RootRefinedToChildren ==
    /\ frame'.number = frame.number + 1
    /\ frame'.frustums
    /\ frame'.visited = {1} \cup Range(getChildren(1))
    /\ _updateResult'.tilesVisited = 3

\* the children of the root, as a set
ChildrenOfRoot == Range(getChildren(1))

\* C24: for a Replace root that does not meet the screen-space error and
\* whose two children are rendered as leaves, with a limit of loading
\* descendants of at least two: a frame that finds both children Unloaded
\* renders exactly the root, kicks both children and enqueues both on
\* Medium; a frame that finds both children loaded, after a frame that
\* rendered exactly the root, renders exactly the two children and reports
\* the root as no longer rendered.
C24_KickThenRefine ==
    [][(/\ RootRefinedToChildren
        /\ refine[1] = "Replace"
        /\ options.loadingDescendantLimit >= 2)
       => /\ (\A t \in ChildrenOfRoot : state[t] = "Unloaded")
              => /\ _updateResult'.tilesToRenderThisFrame = <<1>>
                 /\ \E i \in 1..Len(frame'.kicks) :
                        /\ frame'.kicks[i].tile = 1
                        /\ Range(frame'.kicks[i].removed) = ChildrenOfRoot
                        /\ ~frame'.kicks[i].rewound
                 /\ \A t \in ChildrenOfRoot :
                        wasKicked(sel'[t], frame'.number)
                 /\ Len(_loadQueueMedium') = 2
                 /\ Range(tilesOfQueue(_loadQueueMedium')) = ChildrenOfRoot
                 /\ _updateResult'.tilesLoadingMediumPriority = 2
          /\ (/\ _updateResult.tilesToRenderThisFrame = <<1>>
              /\ \A t \in ChildrenOfRoot :
                     /\ state[t] \in {"ContentLoaded", "Done"}
                     /\ content[t] # "null")
              => /\ Len(_updateResult'.tilesToRenderThisFrame) = 2
                 /\ Range(_updateResult'.tilesToRenderThisFrame)
                        = ChildrenOfRoot
                 /\ 1 \in Range(_updateResult'.tilesToNoLongerRenderThisFrame)
                 /\ frame'.kicks = <<>>]_vars

\* C24 witness: the root was rendered in place of its kicked children, both
\* children were loaded since, and the last frame rendered exactly the two
\* children and reported the root as no longer rendered.
C24_Witness ==
    /\ frame.number >= 2
    /\ frame.prevRender = <<1>>
    /\ RenderSet = ChildrenOfRoot
    /\ 1 \in NoLongerRenderSet
    /\ \A i \in 1..Len(frame.refinements) :
           frame.refinements[i].tile = 1
               => /\ frame.refinements[i].allAreRenderable
                  /\ ~frame.refinements[i].anyWereRenderedLastFrame
    /\ refine[1] = "Replace"
    /\ ~options.forbidHoles

\* ------------------------------------------- raster overlay tile provider

\* C25: loadTileThrottled on an Unloaded tile starts a load exactly when the
\* throttled in-flight counter is below maximumSimultaneousTileLoads;
\* otherwise it returns false and leaves the tile Unloaded and both counters
\* unchanged; the throttled counter never exceeds the limit.
C25_ThrottledLoadsWithinLimit ==
    [][/\ provider'._throttledTilesCurrentlyLoading
              <= provider'.maximumSimultaneousTileLoads
       /\ (/\ lastOp'.op = "loadTileThrottled"
           /\ provider.tiles[lastOp'.pTile].state = "Unloaded")
          => IF provider._throttledTilesCurrentlyLoading
                    < provider.maximumSimultaneousTileLoads
             THEN /\ lastOp'.result
                  /\ provider'.tiles[lastOp'.pTile].state = "Loading"
                  /\ provider'._throttledTilesCurrentlyLoading
                         = provider._throttledTilesCurrentlyLoading + 1
                  /\ provider'._totalTilesCurrentlyLoading
                         = provider._totalTilesCurrentlyLoading + 1
             ELSE /\ ~lastOp'.result
                  /\ provider' = provider]_vars

\* C25 witness: loadTileThrottled has just refused an Unloaded tile because
\* the throttled counter is at the limit.
C25_Witness ==
    /\ lastOp.op = "loadTileThrottled"
    /\ ~lastOp.result
    /\ provider.tiles[lastOp.pTile].state = "Unloaded"
    /\ provider._throttledTilesCurrentlyLoading
           = provider.maximumSimultaneousTileLoads

StartsWithBrace(data) ==
    \E i \in 1..Len(data) :
        /\ data[i] = "{"
        /\ \A j \in 1..(i - 1) : data[j] = " "

\* the part of the content type before the first ';'
BeforeSemicolon(contentType) ==
    IF \E i \in 1..Len(contentType) : contentType[i] = ";"
    THEN SubSeq(contentType, 1,
                (CHOOSE i \in 1..Len(contentType) :
                    /\ contentType[i] = ";"
                    /\ \A j \in 1..(i - 1) : contentType[j] # ";") - 1)
    ELSE contentType

\* the url up to the first '?'
WithoutQuery(url) ==
    IF \E i \in 1..Len(url) : url[i] = "?"
    THEN SubSeq(url, 1,
                (CHOOSE i \in 1..Len(url) :
                    /\ url[i] = "?"
                    /\ \A j \in 1..(i - 1) : url[j] # "?") - 1)
    ELSE url

\* the extension of the url, from its last '.' on, or the empty string
ExtensionOf(url) ==
    IF \E i \in 1..Len(url) : url[i] = "."
    THEN SubSeq(url,
                CHOOSE i \in 1..Len(url) :
                    /\ url[i] = "."
                    /\ \A j \in (i + 1)..Len(url) : url[j] # ".",
                Len(url))
    ELSE <<>>

Registered(map) == {map[i].key : i \in 1..Len(map)}

\* the loader the resolution order of the registry names for a response
ResolvedLoader(data, contentType, url) ==
    IF Len(data) >= 4
          /\ SubSeq(data, 1, 4) \in Registered(loaders._loadersByMagic)
    THEN loaderOf(loaders._loadersByMagic, SubSeq(data, 1, 4))
    ELSE IF lowercase(BeforeSemicolon(contentType))
                \in Registered(loaders._loadersByContentType)
    THEN loaderOf(loaders._loadersByContentType,
                  lowercase(BeforeSemicolon(contentType)))
    ELSE IF lowercase(ExtensionOf(WithoutQuery(url)))
                \in Registered(loaders._loadersByFileExtension)
    THEN loaderOf(loaders._loadersByFileExtension,
                  lowercase(ExtensionOf(WithoutQuery(url))))
    ELSE IF StartsWithBrace(data)
    THEN loaderOf(loaders._loadersByMagic, Json)
    ELSE "nullptr"

\* C27: createContent gives the response to the loader found in the order
\* magic (the first four bytes), lowercase content type before ';',
\* lowercase extension of the url; if none matches, to the JSON loader
\* exactly when the first byte that is not whitespace is '{', and otherwise
\* the result is null content, for every response.
C27_ResolutionOrder ==
    lastOp.op = "createContent" =>
        lastOp.pLoader
            = ResolvedLoader(lastOp.data, lastOp.contentType, lastOp.url)

\* -------------------------------------------------------- composite tiles

RECURSIVE InnerEnd(_, _)
\* where inner tile i of the composite ends: the header size plus the byte
\* lengths of the inner tiles 1..i (not summed further once past byteLength)
InnerEnd(cmpt, i) ==
    IF i = 0 THEN CmptHeaderWords
    ELSE IF InnerEnd(cmpt, i - 1) > cmpt.byteLength
    THEN InnerEnd(cmpt, i - 1)
    ELSE InnerEnd(cmpt, i - 1) + cmpt.inner[i].byteLength

\* a bound of the composite is violated: the header is invalid, or the
\* header or the bytes of one of its tilesLength inner tiles end past
\* byteLength
BoundViolated(cmpt) ==
    \/ cmpt.size < CmptHeaderWords
    \/ cmpt.magic # "cmpt"
    \/ cmpt.version # 1
    \/ cmpt.byteLength > cmpt.size
    \/ \E i \in 1..cmpt.tilesLength :
           \/ InnerEnd(cmpt, i - 1) + InnerHeaderWords > cmpt.byteLength
           \/ InnerEnd(cmpt, i) > cmpt.byteLength

\* C28: when the composite header is invalid or an inner tile's header or
\* byteLength would read past the composite's byteLength, the result of
\* load is null content with a warning, not a partial result.
C28_BoundViolationGivesNull ==
    (lastOp.op = "compositeLoad" /\ BoundViolated(lastOp.cmpt)) =>
        /\ lastOp.pResult = NullContent
        /\ lastOp.warned

\* the inner tiles of a composite without a bound violation that loaded
\* with a model, in their order
SuccessfulInner(cmpt) ==
    SelectSeq([i \in 1..cmpt.tilesLength |-> i],
              LAMBDA i : cmpt.inner[i].loaded = "model")

\* C29: for a composite without a bound violation, with exactly one
\* successful inner tile the result is that tile's content unmodified, and
\* with several it is one content whose model is the merge of the meshes of
\* all successful inner tiles, wherever the empty results are.
C29_MergeDropsEmptyResults ==
    (lastOp.op = "compositeLoad" /\ ~BoundViolated(lastOp.cmpt)) =>
        /\ Len(SuccessfulInner(lastOp.cmpt)) = 1 =>
               lastOp.pResult
                   = innerContent(SuccessfulInner(lastOp.cmpt)[1], "model")
        /\ Len(SuccessfulInner(lastOp.cmpt)) > 1 =>
               /\ lastOp.pResult.content > 0
               /\ lastOp.pResult.meshes = SuccessfulInner(lastOp.cmpt)

\* ------------------------------------------------- implicit octree loader

\* the availability of the subtree the tile of the last call belongs to
OwnSubtree ==
    lastOp.loader._loadedSubtrees[
        (lastOp.octreeID.level \div lastOp.loader._subtreeLevels) + 1][1].second

\* the subtree of the tile of the last call is loaded
OwnSubtreeLoaded ==
    /\ lastOp.op = "createTileChildren"
    /\ lastOp.octreeID.level \div lastOp.loader._subtreeLevels
           < Len(lastOp.loader._loadedSubtrees)
    /\ lastOp.loader._loadedSubtrees[
           (lastOp.octreeID.level \div lastOp.loader._subtreeLevels) + 1]
           # <<>>
    /\ lastOp.loader._loadedSubtrees[
           (lastOp.octreeID.level \div lastOp.loader._subtreeLevels) + 1][1].key
           = SubtreeMortonOf(lastOp.octreeID, lastOp.loader._subtreeLevels)

\* the level of the children of the tile of the last call in its subtree
ChildLevel == (lastOp.octreeID.level % lastOp.loader._subtreeLevels) + 1

\* (parentMorton << 3) | childIndex for the slot (dx, dy, dz)
ChildMorton(dx, dy, dz) ==
    8 * RelativeMortonOf(lastOp.octreeID, lastOp.loader._subtreeLevels)
        + dx + 2 * dy + 4 * dz

ChildID(dx, dy, dz) ==
    OctreeTileID(lastOp.octreeID.level + 1, 2 * lastOp.octreeID.x + dx,
                 2 * lastOp.octreeID.y + dy, 2 * lastOp.octreeID.z + dz)

ChildrenWithID(id) ==
    {i \in 1..Len(lastOp.children) : lastOp.children[i].tileID = id}

\* C30: when the subtree of the tile is loaded, createTileChildren succeeds
\* and creates for each of the 8 slots the child (level+1, 2x+dx, 2y+dy,
\* 2z+dz) exactly when the slot is available at childMorton =
\* (parentMorton << 3) | childIndex, parentMorton being the tile's position
\* inside its own subtree: at the subtree boundary iff isSubtreeAvailable,
\* otherwise iff isTileAvailable, content-bearing iff isContentAvailable and
\* explicitly empty otherwise; no other child is created.
C30_ChildrenExactlyWhenAvailable ==
    OwnSubtreeLoaded =>
        /\ lastOp.state = "Success"
        /\ \A i \in 1..Len(lastOp.children) :
               \E dx \in 0..1 : \E dy \in 0..1 : \E dz \in 0..1 :
                   lastOp.children[i].tileID = ChildID(dx, dy, dz)
        /\ \A dx \in 0..1 : \A dy \in 0..1 : \A dz \in 0..1 :
               /\ Cardinality(ChildrenWithID(ChildID(dx, dy, dz))) <= 1
               /\ IF ChildLevel = lastOp.loader._subtreeLevels
                  THEN /\ ChildrenWithID(ChildID(dx, dy, dz)) # {}
                          <=> ChildMorton(dx, dy, dz) \in OwnSubtree.subtree
                       /\ \A i \in ChildrenWithID(ChildID(dx, dy, dz)) :
                              ~lastOp.children[i].emptyContent
                  ELSE /\ ChildrenWithID(ChildID(dx, dy, dz)) # {}
                          <=> <<ChildLevel, ChildMorton(dx, dy, dz)>>
                                  \in OwnSubtree.tile
                       /\ \A i \in ChildrenWithID(ChildID(dx, dy, dz)) :
                              ~lastOp.children[i].emptyContent
                                  <=> <<ChildLevel, ChildMorton(dx, dy, dz)>>
                                          \in OwnSubtree.content

\* C30 witness: createTileChildren of a tile that is not the first of its
\* subtree created some children but not all eight, one of them explicitly
\* empty.
C30_Witness ==
    /\ OwnSubtreeLoaded
    /\ RelativeMortonOf(lastOp.octreeID, lastOp.loader._subtreeLevels) > 0
    /\ ChildLevel < lastOp.loader._subtreeLevels
    /\ Len(lastOp.children) \in 1..7
    /\ \E i \in 1..Len(lastOp.children) : lastOp.children[i].emptyContent

\* C30 witness at the subtree boundary: a tile of the last level of its
\* subtree, not the first of it, got some children but not all eight.
C30_BoundaryWitness ==
    /\ OwnSubtreeLoaded
    /\ RelativeMortonOf(lastOp.octreeID, lastOp.loader._subtreeLevels) > 0
    /\ ChildLevel = lastOp.loader._subtreeLevels
    /\ Len(lastOp.children) \in 1..7

\* The projection member of the layer.json given to _createTerrainTile
TerrainProjection == lastOp.layerJson.projection

TerrainTileCreated == lastOp.op = "createTerrainTile"

\* C31: a terrain layer with projection EPSG:4326 gets a quadtree tiling
\* scheme with 2x1 root tiles, one with EPSG:3857 gets 1x1 root tiles, and
\* any other projection string gives no projection, no tiling scheme, no
\* root bounding region and no root tiles.
C31_ProjectionSelectsTilingScheme ==
    (TerrainTileCreated /\ TerrainProjection # <<>>) =>
        LET tile == lastOp.tile
            implicit == tile.implicitContext
        IN  /\ TerrainProjection = <<"EPSG:4326">> =>
                   /\ implicit.present
                   /\ implicit.projection = "Geographic"
                   /\ implicit.quadtreeTilingScheme.rootTilesX = 2
                   /\ implicit.quadtreeTilingScheme.rootTilesY = 1
                   /\ Len(tile.children) = 2
            /\ TerrainProjection = <<"EPSG:3857">> =>
                   /\ implicit.present
                   /\ implicit.projection = "WebMercator"
                   /\ implicit.quadtreeTilingScheme.rootTilesX = 1
                   /\ implicit.quadtreeTilingScheme.rootTilesY = 1
                   /\ Len(tile.children) = 1
            /\ TerrainProjection \notin {<<"EPSG:4326">>, <<"EPSG:3857">>} =>
                   /\ ~implicit.present
                   /\ tile.boundingVolume = NoBoundingVolume
                   /\ tile.children = <<>>

\* a layer of an unknown projection has been handled, and so has one with
\* two root tiles
C31_Witness ==
    /\ TerrainTileCreated
    /\ TerrainProjection = <<"foo">>
    /\ lastOp.tile.children = <<>>
    /\ lastOp.layerJson.bounds = <<-180, -90, 0, 90>>

C31_GeographicWitness ==
    /\ TerrainTileCreated
    /\ TerrainProjection = <<"EPSG:4326">>
    /\ Len(lastOp.tile.children) = 2

\* C32: the root bounding region of a terrain layer of projection EPSG:4326
\* or EPSG:3857 covers the maximum globe rectangle of the projection when
\* the layer gives no bounds, and has minimum height -1000 and maximum
\* height 9000, so that the minimum height is at most the maximum height in
\* every terrain bounding region (the root's and the root tiles').
C32_RootRegionCoversGlobeWithEarthHeights ==
    (TerrainTileCreated
         /\ TerrainProjection \in {<<"EPSG:4326">>, <<"EPSG:3857">>}) =>
        LET tile == lastOp.tile
            region == tile.boundingVolume
        IN  /\ lastOp.layerJson.bounds = <<>> =>
                   region.rectangle =
                       IF TerrainProjection = <<"EPSG:4326">>
                       THEN GeographicMaximumGlobeRectangle
                       ELSE WebMercatorMaximumGlobeRectangle
            /\ region.minimumHeight = -1000
            /\ region.maximumHeight = 9000
            /\ region.minimumHeight <= region.maximumHeight
            /\ \A i \in 1..Len(tile.children) :
                   tile.children[i].boundingVolume.minimumHeight
                       <= tile.children[i].boundingVolume.maximumHeight

\* the part of C32 about the rectangle alone
C32_RootRegionCoversGlobe ==
    (TerrainTileCreated
         /\ TerrainProjection \in {<<"EPSG:4326">>, <<"EPSG:3857">>}
         /\ lastOp.layerJson.bounds = <<>>) =>
        lastOp.tile.boundingVolume.rectangle =
            IF TerrainProjection = <<"EPSG:4326">>
            THEN GeographicMaximumGlobeRectangle
            ELSE WebMercatorMaximumGlobeRectangle


\* the level of the octree tile lies inside the table of loaded subtrees
InSubtreeTable(loader, id) ==
    id.level \div loader._subtreeLevels < Len(loader._loadedSubtrees)

\* the subtrees registered in a loader, as <<level index, Morton index>>
RegisteredSubtrees(loader) ==
    UNION {{<<i - 1, loader._loadedSubtrees[i][j].key>> :
               j \in 1..Len(loader._loadedSubtrees[i])} :
           i \in 1..Len(loader._loadedSubtrees)}

\* the subtree the octree tile belongs to, as <<level index, Morton index>>
SubtreeKeyOf(loader, id) ==
    <<id.level \div loader._subtreeLevels,
      SubtreeMortonOf(id, loader._subtreeLevels)>>

\* the content bit of the tile in the availability registered for its subtree
ContentBitSet(loader, id) ==
    \E j \in 1..Len(loader._loadedSubtrees[
                        (id.level \div loader._subtreeLevels) + 1]) :
        LET entry == loader._loadedSubtrees[
                         (id.level \div loader._subtreeLevels) + 1][j]
        IN  /\ entry.key = SubtreeMortonOf(id, loader._subtreeLevels)
            /\ <<id.level % loader._subtreeLevels,
                 RelativeMortonOf(id, loader._subtreeLevels)>>
                   \in entry.second.content

\* the url of the subtree file of the subtree the tile belongs to
SubtreeUrlOf(loader, id) ==
    [urlTemplate |-> "subtree",
     level |-> id.level - (id.level % loader._subtreeLevels),
     x |-> id.x \div pow2(id.level % loader._subtreeLevels),
     y |-> id.y \div pow2(id.level % loader._subtreeLevels),
     z |-> id.z \div pow2(id.level % loader._subtreeLevels)]

\* a call of loadTileContent, from the loader before the call to the loader
\* and the result after it
LoadTileContentStep ==
    LET p == lastOp'.pOctreeID
    IN  IF p = <<>> \/ ~InSubtreeTable(octree, p[1])
        THEN lastOp'.state = "Failed" /\ octree' = octree
        ELSE IF SubtreeKeyOf(octree, p[1]) \notin RegisteredSubtrees(octree)
        THEN /\ lastOp'.lookedUp = SubtreeUrlOf(octree, p[1])
             /\ lastOp'.state = "Pending"
             /\ Len(octree'.loads) = Len(octree.loads) + 1
             /\ octree'.loads[Len(octree'.loads)].subtreeID.level
                    = SubtreeUrlOf(octree, p[1]).level
             /\ octree'._loadedSubtrees = octree._loadedSubtrees
        ELSE /\ octree' = octree
             /\ lastOp'.lookedUp.urlTemplate # "subtree"
             /\ IF ContentBitSet(octree, p[1])
                THEN /\ lastOp'.state = lastOp'.decoded.state
                     /\ lastOp'.content = lastOp'.decoded.content
                ELSE /\ lastOp'.state = "Success"
                     /\ lastOp'.content = "empty"

\* C33: loadTileContent for a tile whose subtree is not registered loads that
\* subtree and the load ends in RetryLater; a subtree that parsed is
\* registered by the continuation in the main thread and stays registered;
\* from then on loadTileContent for a tile of that subtree requests no
\* subtree and returns Success with empty content when the content bit is
\* clear and the result of decoding the content otherwise; a tile without
\* an octree id or of a level beyond the table of loaded subtrees fails.
C33_SubtreeRetryProtocol ==
    [][/\ lastOp'.op = "loadTileContent" => LoadTileContentStep
       /\ lastOp'.op = "subtreeLoaded" =>
              /\ lastOp'.state = "RetryLater"
              /\ lastOp'.parsed =>
                     <<lastOp'.subtreeID.level \div octree._subtreeLevels,
                       morton3D_64_encode(
                           lastOp'.subtreeID.x, lastOp'.subtreeID.y,
                           lastOp'.subtreeID.z)>>
                         \in RegisteredSubtrees(octree')
       /\ RegisteredSubtrees(octree) \subseteq RegisteredSubtrees(octree')
      ]_vars

\* the content of a tile of level 1 was decoded after its subtree, which
\* spans two levels, was loaded and registered
C33_Witness ==
    /\ lastOp.op = "loadTileContent"
    /\ lastOp.pOctreeID # <<>>
    /\ lastOp.pOctreeID[1].level = 1
    /\ octree._subtreeLevels = 2
    /\ lastOp.state = "Success"
    /\ lastOp.content = "model"
    /\ SubtreeKeyOf(octree, lastOp.pOctreeID[1]) \in RegisteredSubtrees(octree)


\* C40: getRequestWork and loadTileContent agree for every tile and every
\* set of loaded subtrees: getRequestWork returns true with a url exactly
\* when loadTileContent looks up response data, the url it gives (the
\* subtree url when the subtree is not loaded, the content url when the
\* content bit is set) is the one loadTileContent looks up, and when it
\* returns false loadTileContent completes without response data.
C40_RequestWorkAgreesWithLoad ==
    [][lastOp'.op = "loadTileContent" =>
          LET p == lastOp'.pOctreeID
              work == getRequestWork(octree, p)
          IN  /\ lastOp'.work = work
              /\ work.result <=> lastOp'.lookedUp # NoUrl
              /\ work.result =>
                     /\ work.outUrl = lastOp'.lookedUp
                     /\ lastOp'.state # "AssertFailed"
                     /\ work.outUrl =
                            IF SubtreeKeyOf(octree, p[1])
                                   \notin RegisteredSubtrees(octree)
                            THEN SubtreeUrlOf(octree, p[1])
                            ELSE [urlTemplate |-> "content",
                                  level |-> p[1].level, x |-> p[1].x,
                                  y |-> p[1].y, z |-> p[1].z]
                     /\ SubtreeKeyOf(octree, p[1])
                            \in RegisteredSubtrees(octree)
                            => ContentBitSet(octree, p[1])
              /\ ~work.result =>
                     /\ lastOp'.state \in {"Failed", "Success"}
                     /\ lastOp'.content \in {"none", "empty"}
                     /\ octree' = octree
      ]_vars

\* loadTileContent looked up the content url getRequestWork gave, for a tile
\* deeper than the root of its registered subtree
C40_Witness ==
    /\ lastOp.op = "loadTileContent"
    /\ lastOp.work.result
    /\ lastOp.work.outUrl.urlTemplate = "content"
    /\ lastOp.lookedUp = lastOp.work.outUrl
    /\ lastOp.pOctreeID[1].level % octree._subtreeLevels = 1

\* loadTileContent looked up the subtree url getRequestWork gave
C40_SubtreeWitness ==
    /\ lastOp.op = "loadTileContent"
    /\ lastOp.work.result
    /\ lastOp.work.outUrl.urlTemplate = "subtree"
    /\ lastOp.lookedUp = lastOp.work.outUrl
    /\ lastOp.state = "Pending"


\* a subtree fetch ended without a subtree
SubtreeFetchFailed == lastOp'.op \in {"subtreeLoadFailed", "subtreeLoadThrew"}

\* the part of C35 about the counter alone
C35_FailedFetchDecrementsOnce ==
    [][SubtreeFetchFailed =>
          subtrees'._subtreeLoadsInProgress
              = subtrees._subtreeLoadsInProgress - 1]_vars

\* C35: a subtree fetch that fails (no response, a status outside 2xx, or a
\* subtree that does not parse) decrements _subtreeLoadsInProgress exactly
\* once and attaches no subtree data to the availability node created for
\* it: the null result is never passed on as a loaded subtree.
C35_FailedFetchAttachesNothing ==
    [][SubtreeFetchFailed =>
          /\ subtrees'._subtreeLoadsInProgress
                 = subtrees._subtreeLoadsInProgress - 1
          /\ ~subtrees'.crashed
          /\ subtrees'.nodes = subtrees.nodes
          /\ lastOp'.request.pNewNode > 0 =>
                 subtrees'.nodes[lastOp'.request.pNewNode].subtree = "none"
      ]_vars

\* ------------------------------------------------------- load accounting

\* the loop condition of ~Tileset and of updateViewOffline
waitForLoads ==
    _loadsInProgress > 0 \/ subtrees._subtreeLoadsInProgress > 0

\* the requests that were counted when issued and have not completed: the
\* startup request (ion endpoint, then tileset JSON), the content request
\* of every tile in ContentLoading, every token refresh request
OutstandingRequests ==
    (IF rootLoad \in {"endpoint", "json"} THEN 1 ELSE 0)
        + Cardinality({t \in Tiles : state[t] = "ContentLoading"})
        + Len(ionRequests)

\* C34: load accounting is balanced: in every reachable state
\* _loadsInProgress is not negative and equals the number of requests that
\* were issued and have not completed (each increment is matched by exactly
\* one decrement, whether the request ends with success, an error status
\* or an exception), so it is zero whenever no request is outstanding and
\* the wait loops of ~Tileset and updateViewOffline are then left.
C34_LoadAccountingBalanced ==
    /\ _loadsInProgress >= 0
    /\ _loadsInProgress = OutstandingRequests
    /\ (OutstandingRequests = 0 /\ subtrees.requests = <<>>) => ~waitForLoads

\* C34 witness: a token refresh request ended with an exception after the
\* startup requests and tile content requests completed, some with an error
\* status, and nothing is outstanding any more.
C34_Witness ==
    /\ lastOp.op = "tokenRefresh"
    /\ lastOp.outcome = "exception"
    /\ rootLoad = "ready"
    /\ \E t \in Tiles : state[t] = "ContentLoaded"
    /\ \E t \in Tiles : content[t] = "http401"
    /\ OutstandingRequests = 0
    /\ ~waitForLoads

\* ------------------------------------------------- the render list of a frame

\* C36: in every frame each tile appears at most once in
\* tilesToRenderThisFrame, for every mix of Replace and Add refinement,
\* kicks at several levels, and forbidHoles.
C36_RenderListWithoutDuplicates ==
    \A i, j \in 1..Len(_updateResult.tilesToRenderThisFrame) :
        _updateResult.tilesToRenderThisFrame[i]
            = _updateResult.tilesToRenderThisFrame[j] => i = j

\* C36 witness: a frame of a tree that mixes Add and Replace refinement
\* kicked rendered descendants at two levels, and an Add tile is in the
\* render list of the frame.
C36_Witness ==
    /\ lastOp.op = "updateView"
    /\ \E k1, k2 \in Range(frame.kicks) :
           k1.tile # k2.tile /\ k1.removed # <<>> /\ k2.removed # <<>>
    /\ \E a \in Range(_updateResult.tilesToRenderThisFrame) :
           refine[a] = "Add"
    /\ \E t \in Tiles : refine[t] = "Replace" /\ ~isLeaf(t)

\* C37: in a tileset whose tiles all use Replace refinement, the render
\* list of every frame is an antichain of the tile tree: no rendered tile
\* is an ancestor of another rendered tile.
C37_ReplaceRenderListIsAntichain ==
    (\A t \in Tiles : refine[t] = "Replace") =>
        \A a, d \in Range(_updateResult.tilesToRenderThisFrame) :
            ~isAncestor(a, d)

\* C37 witness: a frame of an all-Replace tileset kicked the rendered
\* children of a tile, rendered that tile in their place, and rendered
\* another tile beside it.
C37_Witness ==
    /\ lastOp.op = "updateView"
    /\ \A t \in Tiles : refine[t] = "Replace"
    /\ \E k \in Range(frame.kicks) :
           /\ k.removed # <<>>
           /\ k.tile \in Range(_updateResult.tilesToRenderThisFrame)
    /\ Len(_updateResult.tilesToRenderThisFrame) >= 2

\* ------------------------------------------ raster tile load bookkeeping

\* the tiles of a provider whose load has started and is not finalized
LoadingOverlayTiles(p) ==
    {t \in OverlayTiles : p.tiles[t].exists /\ p.tiles[t].state = "Loading"}

RECURSIVE pixelDataOfLoadedFrom(_, _)
\* the sum of the pixel-data sizes of the loaded tiles t.. not yet removed
pixelDataOfLoadedFrom(p, t) ==
    IF t > MaxOverlayTiles THEN 0
    ELSE (IF p.tiles[t].exists /\ p.tiles[t].state = "Loaded"
          THEN p.tiles[t].image ELSE 0)
             + pixelDataOfLoadedFrom(p, t + 1)

\* the bookkeeping of a provider is balanced
LoadBookkeepingBalanced(p) ==
    /\ 0 <= p._throttledTilesCurrentlyLoading
    /\ p._throttledTilesCurrentlyLoading <= p._totalTilesCurrentlyLoading
    /\ p._totalTilesCurrentlyLoading = Cardinality(LoadingOverlayTiles(p))
    /\ p._throttledTilesCurrentlyLoading =
           Cardinality({t \in LoadingOverlayTiles(p) :
                           p.tiles[t].isThrottledLoad})
    /\ LoadingOverlayTiles(p) = {} =>
           /\ p._totalTilesCurrentlyLoading = 0
           /\ p._throttledTilesCurrentlyLoading = 0
    /\ p._tileDataBytes = pixelDataOfLoadedFrom(p, 0)
    /\ \A t \in OverlayTiles :
           p.tiles[t].exists =>
               p.tiles[t].references =
                   p.tiles[t].held
                       + (IF t \in LoadingOverlayTiles(p) THEN 1 ELSE 0)
                       + (IF t = 0 THEN 1 ELSE 0)

\* C38: raster tile load bookkeeping is balanced under any interleaving of
\* load starts and completions: a tile is loaded only from Unloaded and
\* goes Unloaded -> Loading -> Loaded or Failed; each started load is
\* finalized exactly once, the load holding one reference to the tile in
\* between (so that the tile is not removed while it loads); in every state
\* 0 <= throttled in-flight <= total in-flight, both count the tiles in
\* Loading and are zero when no load is outstanding, and _tileDataBytes is
\* the sum of the pixel-data sizes of the loaded tiles not yet removed.
C38_RasterLoadBookkeepingBalanced ==
    [][/\ LoadBookkeepingBalanced(provider)
       /\ LoadBookkeepingBalanced(provider')
       /\ \A t \in OverlayTiles :
              /\ (/\ provider.tiles[t].exists
                  /\ provider'.tiles[t].exists
                  /\ provider'.tiles[t].state # provider.tiles[t].state)
                 => \/ /\ provider.tiles[t].state = "Unloaded"
                       /\ provider'.tiles[t].state = "Loading"
                       /\ lastOp'.op \in {"loadTile", "loadTileThrottled"}
                    \/ /\ provider.tiles[t].state = "Loading"
                       /\ provider'.tiles[t].state \in {"Loaded", "Failed"}
                       /\ lastOp'.op = "doLoadDone"
              /\ t \in LoadingOverlayTiles(provider) =>
                     provider'.tiles[t].exists \/ lastOp'.op = "doLoadDone"
       /\ lastOp'.op = "doLoadDone" =>
              /\ lastOp'.pTile \in LoadingOverlayTiles(provider)
              /\ lastOp'.pTile \notin LoadingOverlayTiles(provider')
              /\ provider'._totalTilesCurrentlyLoading =
                     provider._totalTilesCurrentlyLoading - 1
              /\ provider'._throttledTilesCurrentlyLoading =
                     provider._throttledTilesCurrentlyLoading
                         - (IF provider.tiles[lastOp'.pTile].isThrottledLoad
                            THEN 1 ELSE 0)
      ]_vars

\* C38 witness: the load of a tile has just been finalized while a
\* throttled load of another tile is still in flight and a loaded tile
\* exists whose pixel data is counted.
C38_Witness ==
    /\ lastOp.op = "doLoadDone"
    /\ provider._totalTilesCurrentlyLoading = 1
    /\ provider._throttledTilesCurrentlyLoading = 1
    /\ \E t \in OverlayTiles :
           provider.tiles[t].exists /\ provider.tiles[t].state = "Loaded"
    /\ provider._tileDataBytes >= 1

\* ------------------------------------------- inner slices of a composite

\* C39: for every composite header and every inner byteLength value as
\* 32-bit unsigned integers, each inner slice handed to the registry lies
\* entirely inside [16, cmpt.byteLength) and is at least one 12-byte inner
\* header long, and the scan over the inner tiles ends after at most
\* tilesLength iterations.
C39_InnerSlicesInsideComposite ==
    lastOp.op = "compositeLoad" =>
        /\ Len(innerData(lastOp.cmpt)) <= lastOp.cmpt.tilesLength
        /\ \A k \in 1..Len(innerData(lastOp.cmpt)) :
               /\ innerData(lastOp.cmpt)[k].pos >= CmptHeaderWords
               /\ innerData(lastOp.cmpt)[k].pos
                      + innerData(lastOp.cmpt)[k].byteLength
                      <= lastOp.cmpt.byteLength
               /\ innerData(lastOp.cmpt)[k].byteLength >= InnerHeaderWords

====
